---- MODULE Spec2Model ----
(***************************************************************************)
(* Model of the filter-to-rule compiler of ublock-webkit-filters:          *)
(* the pattern translator and dialect validator of                          *)
(* internal/converter/regex.go, the rule emitter of                         *)
(* internal/converter/converter.go, the filter-list parser, the splitter    *)
(* and deduplicator of internal/converter/splitter.go and the downloader    *)
(* of internal/fetcher/fetcher.go.                                          *)
(*                                                                          *)
(* A Go string is a sequence of characters; a character is a one-rune      *)
(* string ("a", "\\", "|").  The one non-ASCII rune of the model is         *)
(* written "U+00E9".                                                        *)
(***************************************************************************)
EXTENDS Integers, Sequences, FiniteSets, TLC

VARIABLES
    pc,        \* position of the running call ("idle", "converting", "done", ...)
    filters,   \* the []models.Filter argument of the running Convert call, the
               \* local `filters` slice of the running Parse call
    idx,       \* index of the filter (line) the loop of Convert (Parse) is at
    rules,     \* the local `rules` slice of Convert (its return value at "done")
    stats,     \* Converter.stats
    fn,        \* name of the regex.go function applied last ("" before any call)
    arg,       \* its string argument
    ret,       \* its return value
    lines,     \* the lines the scanner of the running Parse call yields
    pstats,    \* Parser.stats
    fetch      \* the Fetcher, the context and the locals of the running Fetch call

vars == <<pc, filters, idx, rules, stats, fn, arg, ret, lines, pstats, fetch>>

-----------------------------------------------------------------------------
(* Characters *)

NonASCIIChar == "U+00E9"

Digits == {"0", "3", "4", "9"}
OctalDigits == {"0", "3", "4"}
Lowers == {"a", "b", "d", "f", "n", "r", "s", "t", "v", "w", "z"}
Uppers == {"A", "B", "D", "S", "W", "Z"}

\* regexp/syntax isalnum
IsAlnum(c) == c \in Digits \cup Lowers \cup Uppers

DigitVal(c) ==
    CASE c = "0" -> 0 [] c = "3" -> 3 [] c = "4" -> 4 [] c = "9" -> 9

\* code point of a character of the model
Ord(c) ==
    CASE c = " " -> 32 [] c = "!" -> 33 [] c = "#" -> 35 [] c = "$" -> 36
      [] c = "%" -> 37 [] c = "(" -> 40 [] c = ")" -> 41 [] c = "*" -> 42
      [] c = "+" -> 43 [] c = "," -> 44 [] c = "-" -> 45 [] c = "." -> 46
      [] c = "/" -> 47 [] c = "0" -> 48 [] c = "3" -> 51 [] c = "4" -> 52
      [] c = "9" -> 57 [] c = ":" -> 58 [] c = "<" -> 60 [] c = "=" -> 61
      [] c = ">" -> 62 [] c = "?" -> 63 [] c = "A" -> 65 [] c = "B" -> 66
      [] c = "D" -> 68 [] c = "S" -> 83 [] c = "W" -> 87 [] c = "Z" -> 90
      [] c = "[" -> 91 [] c = "\\" -> 92 [] c = "]" -> 93 [] c = "^" -> 94
      [] c = "_" -> 95 [] c = "a" -> 97 [] c = "b" -> 98 [] c = "d" -> 100
      [] c = "f" -> 102 [] c = "n" -> 110 [] c = "r" -> 114 [] c = "s" -> 115
      [] c = "t" -> 116 [] c = "v" -> 118 [] c = "w" -> 119 [] c = "z" -> 122
      [] c = "{" -> 123 [] c = "|" -> 124 [] c = "}" -> 125 [] c = "~" -> 126
      [] c = NonASCIIChar -> 233

-----------------------------------------------------------------------------
(* package strings *)

HasPrefix(s, p) == Len(s) >= Len(p) /\ SubSeq(s, 1, Len(p)) = p

HasSuffix(s, p) == Len(s) >= Len(p) /\ SubSeq(s, Len(s) - Len(p) + 1, Len(s)) = p

Contains(s, sub) ==
    \E i \in 1..(Len(s) - Len(sub) + 1) : SubSeq(s, i, i + Len(sub) - 1) = sub

TrimSuffix(s, p) == IF HasSuffix(s, p) THEN SubSeq(s, 1, Len(s) - Len(p)) ELSE s

\* s[from:] with a 1-based index
Drop(s, from) == SubSeq(s, from, Len(s))

\* the characters of a string literal
Chars(str) == [i \in 1..Len(str) |-> SubSeq(str, i, i)]

TrimPrefix(s, p) == IF HasPrefix(s, p) THEN Drop(s, Len(p) + 1) ELSE s

\* the places where sub occurs in s
Occurrences(s, sub) ==
    {i \in 1..(Len(s) - Len(sub) + 1) : SubSeq(s, i, i + Len(sub) - 1) = sub}

\* strings.Index and strings.LastIndex with a 1-based index, 0 for Go's -1
Index(s, sub) ==
    IF Occurrences(s, sub) = {} THEN 0
    ELSE CHOOSE i \in Occurrences(s, sub) : \A j \in Occurrences(s, sub) : i <= j

LastIndex(s, sub) ==
    IF Occurrences(s, sub) = {} THEN 0
    ELSE CHOOSE i \in Occurrences(s, sub) : \A j \in Occurrences(s, sub) : i >= j

\* place of the k-th occurrence of the character c in s; 0 for k = 0 and
\* Len(s) + 1 past the last occurrence
NthIndex(s, c, k) ==
    IF k = 0 THEN 0
    ELSE IF k > Cardinality(Occurrences(s, <<c>>)) THEN Len(s) + 1
    ELSE CHOOSE i \in Occurrences(s, <<c>>) :
             Cardinality({j \in Occurrences(s, <<c>>) : j <= i}) = k

\* strings.Split(s, c) for a one-character separator
StringsSplit(s, c) ==
    [k \in 1..(Cardinality(Occurrences(s, <<c>>)) + 1) |->
        SubSeq(s, NthIndex(s, c, k - 1) + 1, NthIndex(s, c, k) - 1)]

-----------------------------------------------------------------------------
(* regex.go: constants *)

\* [^%.0-9a-z_-]
restrSeparator ==
    <<"[", "^", "%", ".", "0", "-", "9", "a", "-", "z", "_", "-", "]">>

\* ^[a-z-]+://(?:[^/?#]+\.)?
restrHostnameAnchor1 ==
    <<"^", "[", "a", "-", "z", "-", "]", "+", ":", "/", "/", "(", "?", ":",
      "[", "^", "/", "?", "#", "]", "+", "\\", ".", ")", "?">>

\* ^[a-z-]+://(?:[^/?#]+)?
restrHostnameAnchor2 ==
    <<"^", "[", "a", "-", "z", "-", "]", "+", ":", "/", "/", "(", "?", ":",
      "[", "^", "/", "?", "#", "]", "+", ")", "?">>

\* the character class of rePlainChars: [.+?${}()|[\]\\]
PlainChars == {".", "+", "?", "$", "{", "}", "(", ")", "|", "[", "]", "\\"}

-----------------------------------------------------------------------------
(* regex.go: the regexp replacements of PatternToRegex *)

\* the text ReplaceAllString builds: parts[i] is what it appends for the
\* character i of its argument, the replacement where a match starts, nothing
\* inside a match, the character itself elsewhere
RECURSIVE JoinRange(_, _, _)
JoinRange(parts, lo, hi) ==
    IF lo > hi THEN <<>>
    ELSE IF lo = hi THEN parts[lo]
    ELSE JoinRange(parts, lo, (lo + hi) \div 2)
         \o JoinRange(parts, (lo + hi) \div 2 + 1, hi)

Join(parts) == JoinRange(parts, 1, Len(parts))

\* rePlainChars.ReplaceAllString(s, `\$0`)
EscapePlainChars(s) ==
    Join([i \in 1..Len(s) |->
            IF s[i] \in PlainChars THEN <<"\\", s[i]>> ELSE <<s[i]>>])

\* reSeparators.ReplaceAllString(s, restrSeparator)
ReplaceSeparators(s) ==
    Join([i \in 1..Len(s) |-> IF s[i] = "^" THEN restrSeparator ELSE <<s[i]>>])

RECURSIVE StripLeadingAsterisks(_)
StripLeadingAsterisks(s) ==
    IF s # <<>> /\ Head(s) = "*" THEN StripLeadingAsterisks(Tail(s)) ELSE s

RECURSIVE StripTrailingAsterisks(_)
StripTrailingAsterisks(s) ==
    IF s # <<>> /\ s[Len(s)] = "*"
    THEN StripTrailingAsterisks(SubSeq(s, 1, Len(s) - 1))
    ELSE s

\* reDanglingAsterisks.ReplaceAllString(s, ""): ^\*+ matches the leading run,
\* \*+$ the trailing one
RemoveDanglingAsterisks(s) == StripTrailingAsterisks(StripLeadingAsterisks(s))

\* `.*` for every * of s, as the pattern \* without its + would give
ReplaceAsterisksEach(s) ==
    Join([i \in 1..Len(s) |-> IF s[i] # "*" THEN <<s[i]>> ELSE <<".", "*">>])

\* reAsterisks.ReplaceAllString(s, `.*`): \*+ matches each maximal run of *,
\* which starts at a * that no * precedes
ReplaceAsterisks(s) ==
    Join([i \in 1..Len(s) |->
            IF s[i] # "*" THEN <<s[i]>>
            ELSE IF i > 1 /\ s[i - 1] = "*" THEN <<>>
            ELSE <<".", "*">>])

-----------------------------------------------------------------------------
(* regex.go: expandCharacterClasses *)

\* a match of `\\c`, for a letter c, starts at the character i of s
ShorthandAt(s, c, i) == i >= 1 /\ i < Len(s) /\ s[i] = "\\" /\ s[i + 1] = c

\* the replacement of the first match only
ReplaceShorthandFirst(s, c, repl) ==
    Join([i \in 1..Len(s) |->
            IF ShorthandAt(s, c, i) /\ \A j \in 1..(i - 1) : ~ShorthandAt(s, c, j)
            THEN repl
            ELSE IF ShorthandAt(s, c, i - 1) /\ \A j \in 1..(i - 2) : ~ShorthandAt(s, c, j)
            THEN <<>>
            ELSE <<s[i]>>])

\* regexp.MustCompile(`\\c`).ReplaceAllString(s, repl) for a letter c; two
\* matches cannot overlap
ReplaceShorthand(s, c, repl) ==
    Join([i \in 1..Len(s) |->
            IF ShorthandAt(s, c, i) THEN repl
            ELSE IF ShorthandAt(s, c, i - 1) THEN <<>>
            ELSE <<s[i]>>])

\* number of digits s starts with
RECURSIVE DigitRun(_)
DigitRun(s) ==
    IF s # <<>> /\ Head(s) \in Digits THEN 1 + DigitRun(Tail(s)) ELSE 0

\* length of the match of reNumericQuantifierOpen, \{[0-9]+,\}, at the start
\* of s, which starts with { and n digits; 0 when there is none
OpenQuantifierLen(s, n) ==
    IF n >= 1 /\ Len(s) >= n + 3 /\ s[n + 2] = "," /\ s[n + 3] = "}" THEN n + 3 ELSE 0

OpenQuantifierAt(s) ==
    IF s = <<>> \/ Head(s) # "{" THEN 0 ELSE OpenQuantifierLen(s, DigitRun(Tail(s)))

\* length of the match of reNumericQuantifierOpen that starts at the
\* character i of s, 0 when there is none
OpenQuantifierFrom(s, i) == IF s[i] # "{" THEN 0 ELSE OpenQuantifierAt(Drop(s, i))

\* the character i of s is inside a match that starts before it
InsideOpenQuantifier(s, i) ==
    \E j \in 1..(i - 1) : s[j] = "{" /\ j + OpenQuantifierFrom(s, j) > i

\* reNumericQuantifierOpen.ReplaceAllString(s, `+`); a match has one {, its
\* first character, so that two matches cannot overlap
ReplaceOpenQuantifiers(s) ==
    Join([i \in 1..Len(s) |->
            IF OpenQuantifierFrom(s, i) > 0 THEN <<"+">>
            ELSE IF InsideOpenQuantifier(s, i) THEN <<>>
            ELSE <<s[i]>>])

WordClass == <<"[", "a", "-", "z", "A", "-", "Z", "0", "-", "9", "_", "]">>
NonWordClass == <<"[", "^", "a", "-", "z", "A", "-", "Z", "0", "-", "9", "_", "]">>
DigitClass == <<"[", "0", "-", "9", "]">>
NonDigitClass == <<"[", "^", "0", "-", "9", "]">>
SpaceClass ==
    <<"[", " ", "\\", "t", "\\", "n", "\\", "r", "\\", "f", "\\", "v", "]">>
NonSpaceClass ==
    <<"[", "^", " ", "\\", "t", "\\", "n", "\\", "r", "\\", "f", "\\", "v", "]">>

expandCharacterClasses(pattern) ==
    LET p1 == ReplaceShorthand(pattern, "W", NonWordClass)
        p2 == ReplaceShorthand(p1, "w", WordClass)
        p3 == ReplaceShorthand(p2, "D", NonDigitClass)
        p4 == ReplaceShorthand(p3, "d", DigitClass)
        p5 == ReplaceShorthand(p4, "S", NonSpaceClass)
        p6 == ReplaceShorthand(p5, "s", SpaceClass)
    IN ReplaceOpenQuantifiers(p6)

-----------------------------------------------------------------------------
(* regex.go: PatternToRegex *)

\* the ||, | and trailing | detection of PatternToRegex: the anchor bits and
\* the text left after stripping them
StripRightAnchor(hostname, left, s) ==
    [hostname |-> hostname, left |-> left, right |-> HasSuffix(s, <<"|">>),
     s |-> IF HasSuffix(s, <<"|">>) THEN SubSeq(s, 1, Len(s) - 1) ELSE s]

StripAnchors(pattern) ==
    IF HasPrefix(pattern, <<"|", "|">>) THEN StripRightAnchor(TRUE, FALSE, Drop(pattern, 3))
    ELSE IF HasPrefix(pattern, <<"|">>) THEN StripRightAnchor(FALSE, TRUE, Drop(pattern, 2))
    ELSE StripRightAnchor(FALSE, FALSE, pattern)

\* strings.HasPrefix(s, "/") && strings.HasSuffix(s, "/") && len(s) > 2
IsRegexLiteral(s) == HasPrefix(s, <<"/">>) /\ HasSuffix(s, <<"/">>) /\ Len(s) > 2

\* the four substitutions applied to a plain pattern, in the order of the code
TranslatePlain(s) ==
    ReplaceAsterisks(RemoveDanglingAsterisks(ReplaceSeparators(EscapePlainChars(s))))

\* a hostname anchor that does not look at the text it is put before
ApplyLeftAnchorNoDot(a, reStr) ==
    IF a.hostname THEN restrHostnameAnchor1 \o reStr
    ELSE IF a.left THEN <<"^">> \o reStr ELSE reStr

\* lines 82-92
ApplyLeftAnchor(a, reStr) ==
    IF a.hostname
    THEN IF HasPrefix(reStr, <<"\\", ".">>)
         THEN restrHostnameAnchor2 \o reStr
         ELSE restrHostnameAnchor1 \o reStr
    ELSE IF a.left THEN <<"^">> \o reStr ELSE reStr

\* lines 94-97
ApplyRightAnchor(a, reStr) == IF a.right THEN reStr \o <<"$">> ELSE reStr

ApplyAnchors(a, reStr) == ApplyRightAnchor(a, ApplyLeftAnchor(a, reStr))

\* lines 62-99: the translation of the text a.s left by the anchors a
TranslateStripped(a) ==
    IF IsRegexLiteral(a.s)
    THEN expandCharacterClasses(SubSeq(a.s, 2, Len(a.s) - 1))
    ELSE ApplyAnchors(a, TranslatePlain(a.s))

PatternToRegex(pattern) ==
    IF pattern = <<>> \/ pattern = <<"*">> THEN <<".", "*">>
    ELSE TranslateStripped(StripAnchors(pattern))

PatternEndsWithSeparator(pattern) ==
    HasSuffix(TrimSuffix(pattern, <<"|">>), <<"^">>)

\* lines 216-219: add the end anchor if not already present
AddEndAnchor(regex) == IF ~HasSuffix(regex, <<"$">>) THEN regex \o <<"$">> ELSE regex

PatternToRegexEndAnchor(pattern) ==
    AddEndAnchor(PatternToRegex(TrimSuffix(TrimSuffix(pattern, <<"|">>), <<"^">>)))

-----------------------------------------------------------------------------
(* regex.go: ValidateRegex, line 116: regexp.Compile(pattern).              *)
(* The parser of Go's regexp/syntax under the Perl flags, for the          *)
(* characters of the model: whether the text parses.                       *)

\* parseInt: the value of the digit run s[1..n]
RECURSIVE DigitsValue(_, _)
DigitsValue(s, n) ==
    IF n = 0 THEN 0 ELSE 10 * DigitsValue(s, n - 1) + DigitVal(s[n])

\* parseInt: -1 for a run too long to be a repeat count
IntValue(s, n) == IF n >= 9 THEN -1 ELSE DigitsValue(s, n)

\* parseInt: no digit, or a leading zero
NoInt(s, n) == n = 0 \/ (n >= 2 /\ s[1] = "0")

BadRepeat == [ok |-> FALSE, min |-> 0, max |-> 0, len |-> 0]

\* parseRepeat after "{min,": rest = ",max}...", m the digits of max
ParseRepeatMax(rest, n, min, m) ==
    IF NoInt(Tail(rest), m) \/ Len(rest) < m + 2 \/ rest[m + 2] # "}" THEN BadRepeat
    ELSE [ok |-> TRUE, min |-> IF m >= 9 THEN -1 ELSE min,
          max |-> IntValue(Tail(rest), m), len |-> n + m + 3]

\* parseRepeat after "{min": rest is the text after the n digits of min
ParseRepeatRest(rest, n, min) ==
    IF rest = <<>> THEN BadRepeat
    ELSE IF rest[1] = "}" THEN [ok |-> TRUE, min |-> min, max |-> min, len |-> n + 2]
    ELSE IF rest[1] # "," THEN BadRepeat
    ELSE IF Len(rest) >= 2 /\ rest[2] = "}"
    THEN [ok |-> TRUE, min |-> min, max |-> -1, len |-> n + 3]
    ELSE ParseRepeatMax(rest, n, min, DigitRun(Tail(rest)))

ParseRepeatMin(s, n) ==
    IF NoInt(Tail(s), n) THEN BadRepeat
    ELSE ParseRepeatRest(Drop(s, n + 2), n, IntValue(Tail(s), n))

\* parseRepeat at s = "{...": [ok, min, max (-1: none), len]
ParseRepeat(s) == ParseRepeatMin(s, DigitRun(Tail(s)))

\* the size check after parseRepeat: not (min < 0 || min > 1000 ||
\* max > 1000 || max >= 0 && min > max)
RepeatSizeOk(r) ==
    /\ r.min >= 0 /\ r.min <= 1000
    /\ r.max <= 1000
    /\ (r.max >= 0 => r.min <= r.max)

BadEscape == [len |-> 0, val |-> 0]

\* parseEscape, an octal escape \c...: up to two more octal digits
OctalEscape(s) ==
    IF ~(Len(s) >= 3 /\ s[3] \in OctalDigits)
    THEN [len |-> 2, val |-> DigitVal(s[2])]
    ELSE IF ~(Len(s) >= 4 /\ s[4] \in OctalDigits)
    THEN [len |-> 3, val |-> 8 * DigitVal(s[2]) + DigitVal(s[3])]
    ELSE [len |-> 4, val |-> 64 * DigitVal(s[2]) + 8 * DigitVal(s[3]) + DigitVal(s[4])]

\* parseEscape at s = "\...": [len, val]; len = 0 is an error
ParseEscape(s) ==
    IF Len(s) < 2 THEN BadEscape
    ELSE IF s[2] \in {"3", "4"} /\ ~(Len(s) >= 3 /\ s[3] \in OctalDigits) THEN BadEscape
    ELSE IF s[2] \in OctalDigits THEN OctalEscape(s)
    ELSE IF s[2] = "a" THEN [len |-> 2, val |-> 7]
    ELSE IF s[2] = "f" THEN [len |-> 2, val |-> 12]
    ELSE IF s[2] = "n" THEN [len |-> 2, val |-> 10]
    ELSE IF s[2] = "r" THEN [len |-> 2, val |-> 13]
    ELSE IF s[2] = "t" THEN [len |-> 2, val |-> 9]
    ELSE IF s[2] = "v" THEN [len |-> 2, val |-> 11]
    ELSE IF s[2] # NonASCIIChar /\ ~IsAlnum(s[2]) THEN [len |-> 2, val |-> Ord(s[2])]
    ELSE BadEscape

\* parseClassChar
ParseClassChar(s) ==
    IF s = <<>> THEN BadEscape
    ELSE IF Head(s) = "\\" THEN ParseEscape(s)
    ELSE [len |-> 1, val |-> Ord(Head(s))]

PerlClassLetters == {"d", "D", "s", "S", "w", "W"}

\* n more characters consumed before the r of the rest; -1 is an error
Consumed(n, r) == IF r < 0 THEN -1 ELSE n + r

RECURSIVE ParseClassItems(_, _)

\* parseClass, a range lo-hi: t = "-hi..."
ClassRangeHi(t, lo, hi) ==
    IF hi.len = 0 \/ hi.val < lo.val THEN -1
    ELSE Consumed(lo.len + 1 + hi.len, ParseClassItems(Drop(t, hi.len + 2), FALSE))

\* parseClass, a single character lo or the start of a range: s = "lo..."
ClassChar(s, lo) ==
    IF lo.len = 0 THEN -1
    ELSE IF Len(s) >= lo.len + 2 /\ s[lo.len + 1] = "-" /\ s[lo.len + 2] # "]"
    THEN ClassRangeHi(Drop(s, lo.len + 1), lo, ParseClassChar(Drop(s, lo.len + 2)))
    ELSE Consumed(lo.len, ParseClassItems(Drop(s, lo.len + 1), FALSE))

\* the loop of parseClass over s, the text after "[" and an optional "^":
\* the length consumed up to and including the closing "]"; -1 is an error
ParseClassItems(s, first) ==
    IF s # <<>> /\ Head(s) = "]" /\ ~first THEN 1
    ELSE IF Len(s) > 2 /\ s[1] = "[" /\ s[2] = ":" /\ Contains(Drop(s, 3), <<":", "]">>)
    THEN -1    \* no POSIX class name can be spelled with the characters of the model
    ELSE IF Len(s) >= 2 /\ s[1] = "\\" /\ s[2] \in PerlClassLetters
    THEN Consumed(2, ParseClassItems(Drop(s, 3), FALSE))
    ELSE ClassChar(s, ParseClassChar(s))

\* parseClass at s = "[...": the length of the class; -1 is an error
ParseClass(s) ==
    IF Len(s) >= 2 /\ s[2] = "^"
    THEN Consumed(2, ParseClassItems(Drop(s, 3), TRUE))
    ELSE Consumed(1, ParseClassItems(Tail(s), TRUE))

BadGroup == [len |-> 0, group |-> FALSE]

\* parsePerlFlags, the flag loop from s[k]: of the flags i, m, s, U the
\* model has the character s
RECURSIVE FlagRun(_, _, _, _)
FlagRun(s, k, sign, sawFlag) ==
    IF k > Len(s) THEN BadGroup
    ELSE IF s[k] = "s" THEN FlagRun(s, k + 1, sign, TRUE)
    ELSE IF s[k] = "-"
    THEN IF sign < 0 THEN BadGroup ELSE FlagRun(s, k + 1, -1, FALSE)
    ELSE IF s[k] \in {":", ")"}
    THEN IF sign < 0 /\ ~sawFlag THEN BadGroup ELSE [len |-> k, group |-> s[k] = ":"]
    ELSE BadGroup

RECURSIVE WordRun(_)
WordRun(s) ==
    IF s # <<>> /\ (IsAlnum(Head(s)) \/ Head(s) = "_") THEN 1 + WordRun(Tail(s)) ELSE 0

\* parsePerlFlags, a named group whose name starts at s[k] and has n word
\* characters
NamedGroup(s, k, n) ==
    IF n >= 1 /\ Len(s) >= k + n /\ s[k + n] = ">"
    THEN [len |-> k + n, group |-> TRUE]
    ELSE BadGroup

\* parsePerlFlags at s = "(?...": [len, group]; len = 0 is an error
ParsePerlFlags(s) ==
    IF Len(s) > 4 /\ s[3] = "P" /\ s[4] = "<" THEN NamedGroup(s, 5, WordRun(Drop(s, 5)))
    ELSE IF Len(s) > 3 /\ s[3] = "<" THEN NamedGroup(s, 4, WordRun(Drop(s, 4)))
    ELSE FlagRun(s, 3, 1, FALSE)

BadToken == [len |-> 0, kind |-> "error"]

\* a repetition of n characters, with the ? of a non-greedy one
RepeatToken(s, n) ==
    [len |-> IF Len(s) > n /\ s[n + 1] = "?" THEN n + 1 ELSE n, kind |-> "repeat"]

\* "{": a repetition, or a literal { when parseRepeat fails
BraceToken(s, r) ==
    IF ~r.ok THEN [len |-> 1, kind |-> "atom"]
    ELSE IF ~RepeatSizeOk(r) THEN BadToken
    ELSE RepeatToken(s, r.len)

GroupToken(g) == [len |-> g.len, kind |-> IF g.group THEN "open" ELSE "flags"]

AtomToken(n) == IF n > 0 THEN [len |-> n, kind |-> "atom"] ELSE BadToken

\* the token the switch of parse reads at the start of s: its length (0 is
\* an error) and its kind: "open" and "bar" push a marker, "close" closes a
\* group, "atom" pushes an operand, "repeat" wraps the top operand, "flags"
\* (a group of flags alone) pushes nothing
NextToken(s) ==
    IF Head(s) = "("
    THEN IF Len(s) >= 2 /\ s[2] = "?" THEN GroupToken(ParsePerlFlags(s))
         ELSE [len |-> 1, kind |-> "open"]
    ELSE IF Head(s) = "|" THEN [len |-> 1, kind |-> "bar"]
    ELSE IF Head(s) = ")" THEN [len |-> 1, kind |-> "close"]
    ELSE IF Head(s) = "[" THEN AtomToken(ParseClass(s))
    ELSE IF Head(s) \in {"*", "+", "?"} THEN RepeatToken(s, 1)
    ELSE IF Head(s) = "{" THEN BraceToken(s, ParseRepeat(s))
    ELSE IF Head(s) = "\\"
    THEN IF Len(s) >= 2 /\ s[2] \in {"A", "b", "B", "z"} \cup PerlClassLetters
         THEN [len |-> 2, kind |-> "atom"]
         ELSE AtomToken(ParseEscape(s).len)
    ELSE [len |-> 1, kind |-> "atom"]

\* the main loop of parse: s is the text left, depth the number of open
\* groups, hasArg whether the top of the stack is an operand a repetition can
\* take (the stack is not empty and its top is not the ( or | marker),
\* lastRepeat whether the previous token was a repetition
RECURSIVE ParseFrom(_, _, _, _)

ParseToken(s, depth, hasArg, lastRepeat, t) ==
    /\ t.len > 0
    /\ t.kind = "repeat" => ~lastRepeat /\ hasArg
    /\ t.kind = "close" => depth > 0
    /\ ParseFrom(Drop(s, t.len + 1),
                 CASE t.kind = "open" -> depth + 1
                   [] t.kind = "close" -> depth - 1
                   [] OTHER -> depth,
                 CASE t.kind \in {"open", "bar"} -> FALSE
                   [] t.kind = "flags" -> hasArg
                   [] OTHER -> TRUE,
                 t.kind = "repeat")

ParseFrom(s, depth, hasArg, lastRepeat) ==
    IF s = <<>> THEN depth = 0
    ELSE ParseToken(s, depth, hasArg, lastRepeat, NextToken(s))

\* regexp.Compile(pattern) returns no error
Compiles(pattern) == ParseFrom(pattern, 0, FALSE, FALSE)

-----------------------------------------------------------------------------
(* regex.go: ValidateRegex *)

\* reNumericQuantifier, \{[0-9]+(,[0-9]+)?\}: rest is the text after "{" and
\* its digits, m the number of digits after the comma
NumericQuantifierRest(rest, m) ==
    /\ rest # <<>>
    /\ \/ rest[1] = "}"
       \/ rest[1] = "," /\ m >= 1 /\ Len(rest) >= m + 2 /\ rest[m + 2] = "}"

NumericQuantifierDigits(s, n) ==
    n >= 1 /\ NumericQuantifierRest(Drop(s, n + 2), DigitRun(Drop(s, n + 3)))

\* reNumericQuantifier matches at the start of s
NumericQuantifierAt(s) ==
    s # <<>> /\ Head(s) = "{" /\ NumericQuantifierDigits(s, DigitRun(Tail(s)))

\* reNumericQuantifier.MatchString(pattern)
MatchNumericQuantifier(pattern) ==
    \E i \in 1..Len(pattern) : NumericQuantifierAt(Drop(pattern, i))

\* reNonASCII.MatchString(pattern)
MatchNonASCII(pattern) == \E i \in 1..Len(pattern) : pattern[i] = NonASCIIChar

\* reWordBoundary.MatchString(pattern)
MatchWordBoundary(pattern) ==
    Contains(pattern, <<"\\", "b">>) \/ Contains(pattern, <<"\\", "B">>)

\* reWordChar ... reNonSpaceChar .MatchString(pattern)
MatchShorthand(pattern) ==
    \E c \in PerlClassLetters : Contains(pattern, <<"\\", c>>)

\* the `unsupported` list of ValidateRegex
UnsupportedConstructs ==
    { <<"(", "?", "<", "!">>, <<"(", "?", "<", "=">>, <<"(", "?", "=">>,
      <<"(", "?", "!">>, <<"\\", "p", "{">>, <<"\\", "P", "{">>,
      <<"(", "?", "P", "<">>, <<"(", "?", "<">> }

\* the flags of containsDisjunction before the loop
DisjunctionStart == [inCharClass |-> FALSE, escaped |-> FALSE, found |-> FALSE]

\* a loop body that reports every |
DisjunctionStepAnyPipe(st, ch) ==
    IF ch = "|" THEN [st EXCEPT !.found = TRUE] ELSE st

\* lines 176-195, the body of the loop for the character ch: found is set by
\* `return true`, after which no character is looked at
DisjunctionStep(st, ch) ==
    IF st.found THEN st
    ELSE IF st.escaped THEN [st EXCEPT !.escaped = FALSE]
    ELSE IF ch = "\\" THEN [st EXCEPT !.escaped = TRUE]
    ELSE IF ch = "[" /\ ~st.inCharClass THEN [st EXCEPT !.inCharClass = TRUE]
    ELSE IF ch = "]" /\ st.inCharClass THEN [st EXCEPT !.inCharClass = FALSE]
    ELSE IF ch = "|" /\ ~st.inCharClass THEN [st EXCEPT !.found = TRUE]
    ELSE st

\* line 175: the loop over the characters lo..hi of s, from the flags st; the
\* range is walked half by half, left to right, and the second half is not
\* walked once the first has returned true
RECURSIVE DisjunctionScan(_, _, _, _)

DisjunctionContinue(s, lo, hi, st) ==
    IF st.found THEN st ELSE DisjunctionScan(s, lo, hi, st)

DisjunctionScan(s, lo, hi, st) ==
    IF lo > hi THEN st
    ELSE IF lo = hi THEN DisjunctionStep(st, s[lo])
    ELSE DisjunctionContinue(s, (lo + hi) \div 2 + 1, hi,
                             DisjunctionScan(s, lo, (lo + hi) \div 2, st))

containsDisjunction(pattern) ==
    DisjunctionScan(pattern, 1, Len(pattern), DisjunctionStart).found

ValidateRegex(pattern) ==
    /\ Compiles(pattern)
    /\ \A u \in UnsupportedConstructs : ~Contains(pattern, u)
    /\ ~containsDisjunction(pattern)
    /\ ~MatchNumericQuantifier(pattern)
    /\ ~MatchNonASCII(pattern)
    /\ ~MatchWordBoundary(pattern)
    /\ ~MatchShorthand(pattern)

-----------------------------------------------------------------------------
(* models: filter kinds, rule constants (the strings of the Go constants) *)

FilterTypeComment == "Comment"
FilterTypeNetwork == "Network"
FilterTypeException == "Exception"
FilterTypeCosmetic == "Cosmetic"
FilterTypeCosmeticException == "CosmeticException"
FilterTypeUnsupported == "Unsupported"

ActionBlock == "block"
ActionCSSDisplayNone == "css-display-none"
ActionIgnorePreviousRule == "ignore-previous-rules"

LoadFirstParty == "first-party"
LoadThirdParty == "third-party"

ResourceScript == "script"
ResourceImage == "image"

\* converter.go: skip reasons
SkipInvalidRegex == "invalid-regex"
SkipCosmeticException == "cosmetic-exception"
SkipEmptySelector == "empty-selector"

\* models.FilterOptions; ThirdParty is a *bool ("nil", "true", "false").
\* Important is not read by the converter.
FilterOptions(thirdParty, resourceTypes, domains, excludeDomains, matchCase) ==
    [ThirdParty |-> thirdParty, ResourceTypes |-> resourceTypes,
     Domains |-> domains, ExcludeDomains |-> excludeDomains,
     MatchCase |-> matchCase]

NoOptions == FilterOptions("nil", <<>>, <<>>, <<>>, FALSE)

\* models.Filter; Raw is not read by the converter
Filter(type, pattern, selector, domains, options) ==
    [Type |-> type, Pattern |-> pattern, Selector |-> selector,
     Domains |-> domains, Options |-> options]

\* models.WebKitRule; URLFilterIsCaseSensitive is a *bool ("nil", "true"),
\* a nil slice is the empty sequence
WebKitRule(urlFilter, caseSensitive, resourceType, loadType, ifDomain, unlessDomain, actionType, selector) ==
    [Trigger |-> [URLFilter |-> urlFilter,
                  URLFilterIsCaseSensitive |-> caseSensitive,
                  ResourceType |-> resourceType,
                  LoadType |-> loadType,
                  IfDomain |-> ifDomain,
                  UnlessDomain |-> unlessDomain],
     Action |-> [Type |-> actionType, Selector |-> selector]]

-----------------------------------------------------------------------------
(* converter.go: normalizeDomain, normalizeDomains *)

ToLowerChar(c) ==
    CASE c = "A" -> "a" [] c = "B" -> "b" [] c = "D" -> "d" [] c = "S" -> "s"
      [] c = "W" -> "w" [] c = "Z" -> "z" [] OTHER -> c

ToLower(s) == [i \in 1..Len(s) |-> ToLowerChar(s[i])]

RECURSIVE TrimLeft(_)
TrimLeft(s) == IF s # <<>> /\ Head(s) = " " THEN TrimLeft(Tail(s)) ELSE s

RECURSIVE TrimRight(_)
TrimRight(s) ==
    IF s # <<>> /\ s[Len(s)] = " " THEN TrimRight(SubSeq(s, 1, Len(s) - 1)) ELSE s

TrimSpace(s) == TrimRight(TrimLeft(s))

\* lines 340-343: the * prefix
AddWildcard(d) ==
    IF ~HasPrefix(d, <<"*">>) /\ ~HasPrefix(d, <<".">>) THEN <<"*">> \o d ELSE d

\* the domain lower-cased and trimmed, without the * prefix
normalizeDomainNoWildcard(d) == ToLower(TrimSpace(d))

normalizeDomain(d) == AddWildcard(ToLower(TrimSpace(d)))

normalizeDomains(domains) == [i \in 1..Len(domains) |-> normalizeDomain(domains[i])]

-----------------------------------------------------------------------------
(* converter.go: convertNetwork *)

\* the end-anchor rules emitted without validating the end-anchor regex
NeedsEndAnchorVariantUnchecked(pattern) == PatternEndsWithSeparator(pattern)

\* lines 94-103: whether the end-anchor rules are emitted
NeedsEndAnchorVariant(pattern) ==
    PatternEndsWithSeparator(pattern) /\ ValidateRegex(PatternToRegexEndAnchor(pattern))

\* line 137: both domain conditions are present, the rule must be split
SplitNetworkDomainsNever(hasDomains, hasExcludeDomains) == FALSE

SplitNetworkDomains(hasDomains, hasExcludeDomains) == hasDomains /\ hasExcludeDomains

\* lines 105-130: the trigger options and the action shared by the rules of f
NetworkRule(f, isException, urlFilter, ifDomain, unlessDomain) ==
    WebKitRule(urlFilter,
               IF f.Options.MatchCase THEN "true" ELSE "nil",
               f.Options.ResourceTypes,
               IF f.Options.ThirdParty = "nil" THEN <<>>
               ELSE IF f.Options.ThirdParty = "true" THEN <<LoadThirdParty>>
               ELSE <<LoadFirstParty>>,
               ifDomain, unlessDomain,
               IF isException THEN ActionIgnorePreviousRule ELSE ActionBlock,
               <<>>)

\* a split that keeps the if-domain rules only
SplitNetworkRulesIfOnly(f, isException, regex, needsEndAnchorVariant, endAnchorRegex) ==
    <<NetworkRule(f, isException, regex, normalizeDomains(f.Options.Domains), <<>>)>>
    \o (IF needsEndAnchorVariant
        THEN <<NetworkRule(f, isException, endAnchorRegex,
                           normalizeDomains(f.Options.Domains), <<>>)>>
        ELSE <<>>)

\* lines 137-197: rule1, rule1b, rule2, rule2b
SplitNetworkRules(f, isException, regex, needsEndAnchorVariant, endAnchorRegex) ==
    <<NetworkRule(f, isException, regex, normalizeDomains(f.Options.Domains), <<>>)>>
    \o (IF needsEndAnchorVariant
        THEN <<NetworkRule(f, isException, endAnchorRegex,
                           normalizeDomains(f.Options.Domains), <<>>)>>
        ELSE <<>>)
    \o <<NetworkRule(f, isException, regex, <<>>,
                     normalizeDomains(f.Options.ExcludeDomains))>>
    \o (IF needsEndAnchorVariant
        THEN <<NetworkRule(f, isException, endAnchorRegex, <<>>,
                           normalizeDomains(f.Options.ExcludeDomains))>>
        ELSE <<>>)

\* lines 199-244: rule, endRule
SingleNetworkRules(f, isException, regex, needsEndAnchorVariant, endAnchorRegex, ifDomain, unlessDomain) ==
    <<NetworkRule(f, isException, regex, ifDomain, unlessDomain)>>
    \o (IF needsEndAnchorVariant
        THEN <<NetworkRule(f, isException, endAnchorRegex, ifDomain, unlessDomain)>>
        ELSE <<>>)

\* lines 94-244: the rules of a filter whose regex is valid
NetworkRules(f, isException, regex, needsEndAnchorVariant, endAnchorRegex) ==
    IF SplitNetworkDomains(Len(f.Options.Domains) > 0, Len(f.Options.ExcludeDomains) > 0)
    THEN SplitNetworkRules(f, isException, regex, needsEndAnchorVariant, endAnchorRegex)
    ELSE SingleNetworkRules(f, isException, regex, needsEndAnchorVariant, endAnchorRegex,
             IF Len(f.Options.Domains) > 0
             THEN normalizeDomains(f.Options.Domains) ELSE <<>>,
             IF Len(f.Options.ExcludeDomains) > 0
             THEN normalizeDomains(f.Options.ExcludeDomains) ELSE <<>>)

\* lines 87-92: the filter is dropped when its regex is not valid
ValidatedNetworkRules(f, isException, regex) ==
    IF ~ValidateRegex(regex) THEN [rules |-> <<>>, reason |-> SkipInvalidRegex]
    ELSE [rules |-> NetworkRules(f, isException, regex,
                                 NeedsEndAnchorVariant(f.Pattern),
                                 PatternToRegexEndAnchor(f.Pattern)),
          reason |-> ""]

convertNetwork(f, isException) ==
    ValidatedNetworkRules(f, isException, PatternToRegex(f.Pattern))

-----------------------------------------------------------------------------
(* converter.go: convertCosmetic *)

\* lines 260-267: the include (negated = FALSE) or exclude (negated = TRUE)
\* list built from f.Domains
RECURSIVE PartitionDomains(_, _)
PartitionDomains(domains, negated) ==
    IF domains = <<>> THEN <<>>
    ELSE IF HasPrefix(Head(domains), <<"~">>)
    THEN (IF negated THEN <<normalizeDomain(Tail(Head(domains)))>> ELSE <<>>)
         \o PartitionDomains(Tail(domains), negated)
    ELSE (IF negated THEN <<>> ELSE <<normalizeDomain(Head(domains))>>)
         \o PartitionDomains(Tail(domains), negated)

\* a cosmetic filter that is never split
SplitCosmeticDomainsNever(hasInclude, hasExclude) == FALSE

\* line 274
SplitCosmeticDomains(hasInclude, hasExclude) == hasInclude /\ hasExclude

CosmeticRule(f, ifDomain, unlessDomain) ==
    WebKitRule(<<".", "*">>, "nil", <<>>, <<>>, ifDomain, unlessDomain,
               ActionCSSDisplayNone, f.Selector)

\* lines 269-324
CosmeticRules(f, include, exclude) ==
    IF SplitCosmeticDomains(Len(include) > 0, Len(exclude) > 0)
    THEN <<CosmeticRule(f, include, <<>>), CosmeticRule(f, <<>>, exclude)>>
    ELSE <<CosmeticRule(f, IF Len(include) > 0 THEN include ELSE <<>>,
                           IF Len(exclude) > 0 THEN exclude ELSE <<>>)>>

convertCosmetic(f, isException) ==
    IF f.Selector = <<>> THEN [rules |-> <<>>, reason |-> SkipEmptySelector]
    ELSE IF isException THEN [rules |-> <<>>, reason |-> SkipCosmeticException]
    ELSE [rules |-> CosmeticRules(f, PartitionDomains(f.Domains, FALSE),
                                  PartitionDomains(f.Domains, TRUE)),
          reason |-> ""]

-----------------------------------------------------------------------------
(* converter.go: New, skip, Convert *)

\* the stats of New(): zero counters and an empty SkipReasons map
NewStats == [Converted |-> 0, Skipped |-> 0, SkipReasons |-> [r \in {} |-> 0]]

\* SkipReasons[reason], 0 for a key the map does not hold
SkipCount(st, reason) ==
    IF reason \in DOMAIN st.SkipReasons THEN st.SkipReasons[reason] ELSE 0

\* a skip that drops the filter without counting it
skipUncounted(st, reason) == st

skip(st, reason) ==
    [st EXCEPT !.Skipped = @ + 1,
               !.SkipReasons =
                   IF reason \in DOMAIN @ THEN [@ EXCEPT ![reason] = @ + 1]
                   ELSE [r \in DOMAIN @ \cup {reason} |->
                           IF r = reason THEN 1 ELSE @[r]]]

\* the switch of Convert on f.Type; handled = FALSE is the default branch
ConvertOne(f) ==
    CASE f.Type = FilterTypeNetwork ->
           [handled |-> TRUE, out |-> convertNetwork(f, FALSE)]
      [] f.Type = FilterTypeException ->
           [handled |-> TRUE, out |-> convertNetwork(f, TRUE)]
      [] f.Type = FilterTypeCosmetic ->
           [handled |-> TRUE, out |-> convertCosmetic(f, FALSE)]
      [] f.Type = FilterTypeCosmeticException ->
           [handled |-> TRUE, out |-> convertCosmetic(f, TRUE)]
      [] OTHER -> [handled |-> FALSE, out |-> [rules |-> <<>>, reason |-> ""]]

-----------------------------------------------------------------------------
(* parser (unnamed/part_001): skip reasons, options *)

SkipScriptlet == "scriptlet (##+js)"
SkipHTMLFilter == "html-filter (##^)"
SkipProcedural == "procedural (:has, :xpath, etc)"
SkipUnsupportedOpt == "unsupported-option (redirect, csp, etc)"

ResourceStyleSheet == "style-sheet"
ResourceFont == "font"
ResourceMedia == "media"
ResourceRaw == "raw"
ResourceDocument == "document"
ResourcePopup == "popup"

\* models.Filter as the parser fills it, Raw included
ParsedFilter(type, raw, pattern, selector, domains, options) ==
    [Type |-> type, Raw |-> raw, Pattern |-> pattern, Selector |-> selector,
     Domains |-> domains, Options |-> options]

\* the zero models.FilterOptions
ZeroOptions ==
    [ThirdParty |-> "nil", ResourceTypes |-> <<>>, Domains |-> <<>>,
     ExcludeDomains |-> <<>>, MatchCase |-> FALSE, Important |-> FALSE]

\* what Parser.skip returns
UnsupportedFilter == ParsedFilter(FilterTypeUnsupported, <<>>, <<>>, <<>>, <<>>, ZeroOptions)

IsNonEmpty(d) == d # <<>>

\* the parts of s between the separators c, trimmed, the empty ones dropped
TrimmedParts(s, c) ==
    SelectSeq([k \in 1..Len(StringsSplit(s, c)) |-> TrimSpace(StringsSplit(s, c)[k])], IsNonEmpty)

\* parseDomainList
parseDomainList(s) == IF s = <<>> THEN <<>> ELSE TrimmedParts(s, ",")

IsNegated(d) == HasPrefix(d, <<"~">>)

IsNotNegated(d) == ~HasPrefix(d, <<"~">>)

\* parseDomainOption: include keeps the parts without ~, exclude the parts
\* with ~, the ~ removed
parseDomainOption(s) ==
    [include |-> SelectSeq(TrimmedParts(s, "|"), IsNotNegated),
     exclude |-> [k \in 1..Len(SelectSeq(TrimmedParts(s, "|"), IsNegated)) |->
                     Tail(SelectSeq(TrimmedParts(s, "|"), IsNegated)[k])]]

\* the switch of mapResourceType on a name
ResourceTypeOf(s) ==
    CASE s = Chars("script") -> ResourceScript
      [] s \in {Chars("image"), Chars("img")} -> ResourceImage
      [] s \in {Chars("stylesheet"), Chars("css")} -> ResourceStyleSheet
      [] s = Chars("font") -> ResourceFont
      [] s = Chars("media") -> ResourceMedia
      [] s \in {Chars("xmlhttprequest"), Chars("xhr")} -> ResourceRaw
      [] s \in {Chars("subdocument"), Chars("frame")} -> ResourceDocument
      [] s \in {Chars("object"), Chars("object-subrequest")} -> ResourceRaw
      [] s \in {Chars("ping"), Chars("beacon")} -> ResourceRaw
      [] s = Chars("popup") -> ResourcePopup
      [] s = Chars("other") -> ResourceRaw
      [] s = Chars("websocket") -> ResourceRaw
      [] s \in {Chars("document"), Chars("doc")} -> ResourceDocument
      [] OTHER -> ""

mapResourceType(s) == ResourceTypeOf(TrimPrefix(s, <<"~">>))

\* the default case of parseOptions
AddResourceType(opts, rt) ==
    IF rt # "" THEN [opts EXCEPT !.ResourceTypes = Append(@, rt)] ELSE opts

SetDomains(opts, d) == [opts EXCEPT !.Domains = d.include, !.ExcludeDomains = d.exclude]

\* one iteration of the loop of parseOptions, part already trimmed
ApplyOption(opts, part) ==
    IF part = <<>> THEN opts
    ELSE IF part \in {Chars("third-party"), Chars("3p")}
    THEN [opts EXCEPT !.ThirdParty = "true"]
    ELSE IF part \in {Chars("~third-party"), Chars("~3p"), Chars("first-party"), Chars("1p")}
    THEN [opts EXCEPT !.ThirdParty = "false"]
    ELSE IF part = Chars("match-case") THEN [opts EXCEPT !.MatchCase = TRUE]
    ELSE IF part = Chars("important") THEN [opts EXCEPT !.Important = TRUE]
    ELSE IF HasPrefix(part, Chars("domain="))
    THEN SetDomains(opts, parseDomainOption(Drop(part, 8)))
    ELSE AddResourceType(opts, mapResourceType(part))

RECURSIVE ApplyOptions(_, _, _)
ApplyOptions(opts, parts, k) ==
    IF k > Len(parts) THEN opts
    ELSE ApplyOptions(ApplyOption(opts, TrimSpace(parts[k])), parts, k + 1)

parseOptions(s) == ApplyOptions(ZeroOptions, StringsSplit(s, ","), 1)

UnsupportedOptions ==
    { Chars("redirect="), Chars("redirect-rule="), Chars("csp="),
      Chars("removeparam="), Chars("replace="), Chars("header="),
      Chars("method="), Chars("to="), Chars("permissions="),
      Chars("uritransform=") }

hasUnsupportedOptionsPrefixOnly(s) == \E u \in UnsupportedOptions : HasPrefix(s, u)

hasUnsupportedOptions(s) == \E u \in UnsupportedOptions : Contains(s, u)

-----------------------------------------------------------------------------
(* parser (unnamed/part_001): parseLine, parseCosmetic, parseNetwork, Parse *)

ProceduralOperators ==
    { Chars(":has("), Chars(":has-text("), Chars(":xpath("), Chars(":matches-css("),
      Chars(":matches-attr("), Chars(":min-text-length("), Chars(":not("),
      Chars(":upward("), Chars(":remove("), Chars(":style(") }

containsProcedural(line) == \E o \in ProceduralOperators : Contains(line, o)

\* what parseLine and the functions it calls return: the filter, and the
\* reason Parser.skip was called with ("" when it was not called)
Parsed(filter) == [filter |-> filter, reason |-> ""]

Skipped(reason) == [filter |-> UnsupportedFilter, reason |-> reason]

\* parseCosmetic; sepIdx is the 1-based index of the separator
parseCosmetic(line, sepIdx, isException) ==
    Parsed(ParsedFilter(
        IF isException THEN FilterTypeCosmeticException ELSE FilterTypeCosmetic,
        line,
        <<>>,
        Drop(line, sepIdx + (IF isException THEN 3 ELSE 2)),
        IF sepIdx > 1 THEN parseDomainList(SubSeq(line, 1, sepIdx - 1)) ELSE <<>>,
        ZeroOptions))

NetworkType(isException) ==
    IF isException THEN FilterTypeException ELSE FilterTypeNetwork

\* lines 184-189: whether the line is split at its last $, found at the index at
\* (0 when the line has none)
SplitsAtAnyDollar(line, at) == at # 0

SplitsAt(line, at) ==
    /\ at # 0
    /\ (at = 1 \/ line[at - 1] # "\\")
    /\ ~HasPrefix(Drop(line, at + 1), <<"/">>)

\* lines 190-196
SplitNetwork(line, isException, at) ==
    IF hasUnsupportedOptions(Drop(line, at + 1)) THEN Skipped(SkipUnsupportedOpt)
    ELSE Parsed(ParsedFilter(NetworkType(isException), line,
                             SubSeq(line, 1, at - 1), <<>>, <<>>,
                             parseOptions(Drop(line, at + 1))))

parseNetwork(line, isException) ==
    IF SplitsAt(line, LastIndex(line, <<"$">>))
    THEN SplitNetwork(line, isException, LastIndex(line, <<"$">>))
    ELSE Parsed(ParsedFilter(NetworkType(isException), line, line, <<>>, <<>>, ZeroOptions))

\* line 95
IsCommentLine(line) == HasPrefix(line, <<"!">>) \/ HasPrefix(line, <<"[">>)

\* line 100
IsScriptletLine(line) == Contains(line, Chars("##+js(")) \/ Contains(line, Chars("#@#+js("))

\* line 105
IsHTMLFilterLine(line) == Contains(line, Chars("##^")) \/ Contains(line, Chars("#@#^"))

\* line 115
IsCosmeticLine(line) == Index(line, Chars("##")) # 0 /\ ~Contains(line, Chars("#@#"))

\* line 120
IsCosmeticExceptionLine(line) == Index(line, Chars("#@#")) # 0

\* lines 115-130 with a ## taken for a cosmetic filter whatever else the line
\* holds
parseFilterLineCosmeticFirst(line) ==
    IF Index(line, Chars("##")) # 0
    THEN parseCosmetic(line, Index(line, Chars("##")), FALSE)
    ELSE IF IsCosmeticExceptionLine(line)
    THEN parseCosmetic(line, Index(line, Chars("#@#")), TRUE)
    ELSE IF HasPrefix(line, Chars("@@")) THEN parseNetwork(Drop(line, 3), TRUE)
    ELSE parseNetwork(line, FALSE)

\* lines 115-130
parseFilterLine(line) ==
    IF IsCosmeticLine(line) THEN parseCosmetic(line, Index(line, Chars("##")), FALSE)
    ELSE IF IsCosmeticExceptionLine(line)
    THEN parseCosmetic(line, Index(line, Chars("#@#")), TRUE)
    ELSE IF HasPrefix(line, Chars("@@")) THEN parseNetwork(Drop(line, 3), TRUE)
    ELSE parseNetwork(line, FALSE)

parseLine(line) ==
    IF IsCommentLine(line)
    THEN Parsed(ParsedFilter(FilterTypeComment, line, <<>>, <<>>, <<>>, ZeroOptions))
    ELSE IF IsScriptletLine(line) THEN Skipped(SkipScriptlet)
    ELSE IF IsHTMLFilterLine(line) THEN Skipped(SkipHTMLFilter)
    ELSE IF containsProcedural(line) THEN Skipped(SkipProcedural)
    ELSE parseFilterLine(line)

\* the stats of parser.New()
NewParserStats ==
    [Total |-> 0, Network |-> 0, Exception |-> 0, Cosmetic |-> 0, Comments |-> 0,
     Unsupported |-> 0, SkipReasons |-> [r \in {} |-> 0]]

\* Parser.skip: SkipReasons[reason]++; reason "" stands for no call
parserSkipUncounted(st, reason) == st

parserSkip(st, reason) ==
    IF reason = "" THEN st
    ELSE [st EXCEPT !.SkipReasons =
                        IF reason \in DOMAIN @ THEN [@ EXCEPT ![reason] = @ + 1]
                        ELSE [r \in DOMAIN @ \cup {reason} |->
                                IF r = reason THEN 1 ELSE @[r]]]

\* lines 69-84 of Parse: Total and the counter of the filter's kind
CountFilter(st, type) ==
    CASE type = FilterTypeComment -> [st EXCEPT !.Total = @ + 1, !.Comments = @ + 1]
      [] type = FilterTypeUnsupported -> [st EXCEPT !.Total = @ + 1, !.Unsupported = @ + 1]
      [] type = FilterTypeNetwork -> [st EXCEPT !.Total = @ + 1, !.Network = @ + 1]
      [] type = FilterTypeException -> [st EXCEPT !.Total = @ + 1, !.Exception = @ + 1]
      [] type \in {FilterTypeCosmetic, FilterTypeCosmeticException} ->
           [st EXCEPT !.Total = @ + 1, !.Cosmetic = @ + 1]

\* lines 71-86: comments and unsupported filters are not appended
IsKept(type) == type \notin {FilterTypeComment, FilterTypeUnsupported}

-----------------------------------------------------------------------------
(* splitter.go: NewSplitter, Split, Deduplicate *)

MaxRulesPerFile == 50000

NewSplitter(maxRules) ==
    [maxRules |-> IF maxRules <= 0 THEN MaxRulesPerFile ELSE maxRules]

DigitChar(d) ==
    CASE d = 0 -> "0" [] d = 1 -> "1" [] d = 2 -> "2" [] d = 3 -> "3" [] d = 4 -> "4"
      [] d = 5 -> "5" [] d = 6 -> "6" [] d = 7 -> "7" [] d = 8 -> "8" [] d = 9 -> "9"

\* the %d of fmt.Sprintf for n >= 0
RECURSIVE Itoa(_)
Itoa(n) == IF n < 10 THEN <<DigitChar(n)>> ELSE Itoa(n \div 10) \o <<DigitChar(n % 10)>>

\* line 44: fmt.Sprintf("%s-part%d", baseName, i+1)
PartName(baseName, i) == baseName \o Chars("-part") \o Itoa(i + 1)

\* line 35
NumParts(n, maxRules) == (n + maxRules - 1) \div maxRules

\* lines 38-45 with the last part left out
PartFullOnly(rs, maxRules, i) ==
    IF i * maxRules + maxRules > Len(rs) THEN <<>>
    ELSE SubSeq(rs, i * maxRules + 1, i * maxRules + maxRules)

\* lines 38-45: rules[start:end] of the iteration i
Part(rs, maxRules, i) ==
    SubSeq(rs, i * maxRules + 1,
           IF i * maxRules + maxRules > Len(rs) THEN Len(rs) ELSE i * maxRules + maxRules)

\* lines 35-46: the map the loop fills
SplitParts(rs, baseName, maxRules) ==
    [name \in {PartName(baseName, i) : i \in 0..(NumParts(Len(rs), maxRules) - 1)} |->
        Part(rs, maxRules,
             CHOOSE i \in 0..(NumParts(Len(rs), maxRules) - 1) : PartName(baseName, i) = name)]

\* Splitter.Split; a map is a function from its keys
Split(sp, rs, baseName) ==
    IF Len(rs) <= sp.maxRules THEN (baseName :> rs)
    ELSE SplitParts(rs, baseName, sp.maxRules)

\* lines 58-62: fmt.Sprintf("%s|%s|%s", ...)
DedupKeyWithDomains(r) == <<r.Trigger, r.Action>>

DedupKey(r) ==
    r.Trigger.URLFilter \o <<"|">> \o Chars(r.Action.Type) \o <<"|">> \o r.Action.Selector

\* lines 56-68 from the rule k on
RECURSIVE DeduplicateFrom(_, _, _, _)
DeduplicateFrom(rs, k, seen, result) ==
    IF k > Len(rs) THEN result
    ELSE IF DedupKey(rs[k]) \in seen THEN DeduplicateFrom(rs, k + 1, seen, result)
    ELSE DeduplicateFrom(rs, k + 1, seen \cup {DedupKey(rs[k])}, Append(result, rs[k]))

Deduplicate(rs) == DeduplicateFrom(rs, 1, {}, <<>>)

-----------------------------------------------------------------------------
(* fetcher.go: New, Fetch *)

\* lines 26-29 of New
DefaultRetries == 3

\* lines 26-29 with the configured value taken as it is
FetcherRetriesNoDefault(cfgRetries) == cfgRetries

FetcherRetries(cfgRetries) == IF cfgRetries = 0 THEN DefaultRetries ELSE cfgRetries

\* a nil []byte and a []byte holding b
NilBytes == [nil |-> TRUE, bytes |-> <<>>]

Bytes(b) == [nil |-> FALSE, bytes |-> b]

\* what doFetch returns: the body and a nil error, or nil and an error
Downloaded(body) == [data |-> Bytes(body), err |-> "nil"]

DownloadFailed == [data |-> NilBytes, err |-> "error"]

\* no Fetcher yet.  cfgRetries is cfg.Retries and retries Fetcher.retries; url
\* is the argument of Fetch; i, data and err are the loop variable and the return values of Fetch, ctxDone
\* tells that ctx.Done() is closed, and served lists what doFetch returned,
\* attempt by attempt
NoFetch ==
    [cfgRetries |-> 0, retries |-> 0, url |-> <<>>, i |-> 0, ctxDone |-> FALSE,
     data |-> NilBytes, err |-> "nil", served |-> <<>>]

-----------------------------------------------------------------------------
(* Inputs *)

MaxPatLen == 4      \* longest pattern enumerated character by character
MaxFilters == 2     \* longest filter list built from SampleFilters
MaxDomains == 2     \* longest domain list enumerated
MaxTokens == 4      \* longest regex enumerated token by token
MaxRules == 4       \* longest rule list handed to Split and Deduplicate
MaxRetries == 3     \* largest configured number of retries

SeqsUpTo(S, n) == UNION {[1..k -> S] : k \in 0..n}

Flatten(ss) == Join(ss)

\* patterns of the filters handed to Convert
ConvertAlphabet == {"a", "^", "|", "/", "*"}
ConvertPatterns == SeqsUpTo(ConvertAlphabet, MaxPatLen)

DomainSamples ==
    { <<"a", ".", "b">>, <<" ", "A", ".", "b">>, <<"*", "a">>, <<".", "a">> }
DomainLists == SeqsUpTo(DomainSamples, MaxDomains)

CosmeticDomainSamples ==
    { <<"a", ".", "b">>, <<"~", "b">>, <<"~", "A", " ">>, <<".", "a">> }
CosmeticDomainLists == SeqsUpTo(CosmeticDomainSamples, MaxDomains)

Selectors == { <<>>, <<".", "a">> }

NetworkTypes == {FilterTypeNetwork, FilterTypeException}
CosmeticTypes == {FilterTypeCosmetic, FilterTypeCosmeticException}

DomA == <<"a", ".", "b">>
DomB == <<"b">>

\* every enumerated pattern, without domains, with both domain lists and
\* with include domains only
PatternFilters ==
    { Filter(d[1], p, <<>>, <<>>, FilterOptions("nil", <<>>, d[2], d[3], FALSE)) :
        p \in ConvertPatterns,
        d \in { <<FilterTypeNetwork, <<>>, <<>>>>,
                <<FilterTypeNetwork, <<DomA>>, <<DomB>>>>,
                <<FilterTypeException, <<DomA>>, <<>>>> } }

\* every combination of options, on a pattern with and without a separator end
OptionFilters ==
    { Filter(t, p, <<>>, <<>>, FilterOptions(tp, rt, d[1], d[2], mc)) :
        t \in NetworkTypes,
        p \in { <<"a", "^">>, <<"a">> },
        tp \in {"nil", "true", "false"},
        rt \in { <<>>, <<ResourceScript>>, <<ResourceScript, ResourceImage>> },
        d \in { <<<<>>, <<>>>>, <<<<DomA>>, <<>>>>, <<<<>>, <<DomB>>>>,
                <<<<DomA>>, <<DomB>>>> },
        mc \in BOOLEAN }

\* every domain list as the include list and as the exclude list, the other
\* list empty or not
DomainPairs ==
    { <<inc, exc>> : inc \in DomainLists, exc \in { <<>>, <<<<" ", "A", ".", "b">>>> } }
    \cup { <<inc, exc>> : inc \in { <<>>, <<DomA>> }, exc \in DomainLists }

DomainFilters ==
    { Filter(FilterTypeNetwork, <<"|", "|", "a", "^">>, <<>>, <<>>,
             FilterOptions("nil", <<>>, d[1], d[2], FALSE)) : d \in DomainPairs }

CosmeticFilters ==
    { Filter(t, <<>>, sel, ds, NoOptions) :
        t \in CosmeticTypes, sel \in Selectors, ds \in CosmeticDomainLists }

OtherFilters ==
    { Filter(FilterTypeComment, <<>>, <<>>, <<>>, NoOptions),
      Filter(FilterTypeUnsupported, <<>>, <<>>, <<>>, NoOptions) }

\* the filters lists of several filters are built from
SampleFilters ==
    { Filter(FilterTypeNetwork, <<"|", "|", "a", "^">>, <<>>, <<>>,
             FilterOptions("true", <<ResourceScript>>, <<DomA>>, <<DomB>>, TRUE)),
      Filter(FilterTypeNetwork, <<"/", "|", "/">>, <<>>, <<>>,
             FilterOptions("nil", <<ResourceScript>>, <<>>, <<>>, FALSE)),
      Filter(FilterTypeException, <<"/", "|", "/", "^">>, <<>>, <<>>,
             FilterOptions("nil", <<>>, <<DomA>>, <<>>, FALSE)),
      Filter(FilterTypeException, <<"/", "*", "/">>, <<>>, <<>>, NoOptions),
      Filter(FilterTypeCosmetic, <<>>, <<".", "a">>, <<DomA, <<"~", "b">>>>, NoOptions),
      Filter(FilterTypeCosmetic, <<>>, <<>>, <<DomA>>, NoOptions),
      Filter(FilterTypeCosmeticException, <<>>, <<".", "a">>, <<>>, NoOptions),
      Filter(FilterTypeComment, <<>>, <<>>, <<>>, NoOptions) }

FilterLists ==
    SeqsUpTo(SampleFilters, MaxFilters)
    \cup { <<f>> : f \in PatternFilters \cup OptionFilters \cup DomainFilters
                         \cup CosmeticFilters \cup OtherFilters }

-----------------------------------------------------------------------------
(* The Converter: New, then Convert over a list of filters *)

Init ==
    /\ pc = "idle"
    /\ filters = <<>>
    /\ idx = 0
    /\ rules = <<>>
    /\ stats = NewStats
    /\ fn = ""
    /\ arg = <<>>
    /\ ret = <<>>
    /\ lines = <<>>
    /\ pstats = NewParserStats
    /\ fetch = NoFetch

\* c.Convert(fs) is called: var rules, the range loop starts
ConvertCall(fs) ==
    /\ pc = "idle"
    /\ pc' = "converting"
    /\ filters' = fs
    /\ idx' = 1
    /\ rules' = <<>>
    /\ UNCHANGED <<stats, fn, arg, ret, lines, pstats, fetch>>

\* lines 69-77 with the rules of a filter put before the rules collected
CollectInFront(c) ==
    IF ~c.handled THEN UNCHANGED <<rules, stats>>
    ELSE IF Len(c.out.rules) = 0
    THEN /\ stats' = IF c.out.reason # "" THEN skip(stats, c.out.reason) ELSE stats
         /\ UNCHANGED rules
    ELSE /\ stats' = [stats EXCEPT !.Converted = @ + Len(c.out.rules)]
         /\ rules' = c.out.rules \o rules

\* lines 69-77 of Convert: the rules and the stats after a filter converted
\* as c
Collect(c) ==
    IF ~c.handled THEN UNCHANGED <<rules, stats>>
    ELSE IF Len(c.out.rules) = 0
    THEN /\ stats' = IF c.out.reason # "" THEN skip(stats, c.out.reason) ELSE stats
         /\ UNCHANGED rules
    ELSE /\ stats' = [stats EXCEPT !.Converted = @ + Len(c.out.rules)]
         /\ rules' = rules \o c.out.rules

\* one iteration of the loop of Convert
ConvertStep ==
    /\ pc = "converting"
    /\ idx <= Len(filters)
    /\ Collect(ConvertOne(filters[idx]))
    /\ idx' = idx + 1
    /\ UNCHANGED <<pc, filters, fn, arg, ret, lines, pstats, fetch>>

\* the loop is over: return rules
ConvertReturn ==
    /\ pc = "converting"
    /\ idx > Len(filters)
    /\ pc' = "done"
    /\ UNCHANGED <<filters, idx, rules, stats, fn, arg, ret, lines, pstats, fetch>>

\* converter.New(): a fresh Converter for the next run
New ==
    /\ pc = "done"
    /\ pc' = "idle"
    /\ filters' = <<>>
    /\ idx' = 0
    /\ rules' = <<>>
    /\ stats' = NewStats
    /\ UNCHANGED <<fn, arg, ret, lines, pstats, fetch>>

Next ==
    \/ \E fs \in FilterLists : ConvertCall(fs)
    \/ ConvertStep
    \/ ConvertReturn
    \/ New

Spec == Init /\ [][Next]_vars

-----------------------------------------------------------------------------
(* regex.go called on its own: ValidateRegex and containsDisjunction on a
   regex, PatternToRegex, PatternEndsWithSeparator and PatternToRegexEndAnchor
   on a pattern.  arg is the argument, fn the function called, ret its result. *)

\* regexes, token by token
RegexTokens ==
    { <<"a">>, <<"|">>, <<"[">>, <<"]">>, <<"\\">>,
      <<"{", "3", "}">>, <<"{", "3", ",", "}">>, <<"{", "3", ",", "4", "}">> }
Regexes == { Flatten(ts) : ts \in SeqsUpTo(RegexTokens, MaxTokens) }

\* plain patterns, character by character
PlainAlphabet == {"a", ".", "*", "^", "|", "$", "/", "\\"}
PlainPatterns == SeqsUpTo(PlainAlphabet, MaxPatLen)

\* regex literals /.../, token by token
LiteralTokens ==
    { <<"a">>, <<"|">>, <<"[">>, <<"]">>, <<"\\", "w">>, <<"\\", "D">>,
      <<"{", "3", "}">>, <<"{", "3", "0", ",", "}">> }
LiteralBodies == { Flatten(ts) : ts \in SeqsUpTo(LiteralTokens, MaxTokens) }
LiteralPatterns == { <<"/">> \o b \o <<"/">> : b \in LiteralBodies }

Patterns == PlainPatterns \cup LiteralPatterns

InitCall(inputs) ==
    /\ pc = "call"
    /\ arg \in inputs
    /\ fn = ""
    /\ ret = <<>>
    /\ filters = <<>>
    /\ idx = 0
    /\ rules = <<>>
    /\ stats = NewStats
    /\ lines = <<>>
    /\ pstats = NewParserStats
    /\ fetch = NoFetch

CallValidateRegex ==
    /\ pc = "call"
    /\ pc' = "return"
    /\ fn' = "ValidateRegex"
    /\ ret' = ValidateRegex(arg)
    /\ UNCHANGED <<arg, filters, idx, rules, stats, lines, pstats, fetch>>

CallContainsDisjunction ==
    /\ pc = "call"
    /\ pc' = "return"
    /\ fn' = "containsDisjunction"
    /\ ret' = containsDisjunction(arg)
    /\ UNCHANGED <<arg, filters, idx, rules, stats, lines, pstats, fetch>>

CallPatternToRegex ==
    /\ pc = "call"
    /\ pc' = "return"
    /\ fn' = "PatternToRegex"
    /\ ret' = PatternToRegex(arg)
    /\ UNCHANGED <<arg, filters, idx, rules, stats, lines, pstats, fetch>>

CallPatternEndsWithSeparator ==
    /\ pc = "call"
    /\ pc' = "return"
    /\ fn' = "PatternEndsWithSeparator"
    /\ ret' = PatternEndsWithSeparator(arg)
    /\ UNCHANGED <<arg, filters, idx, rules, stats, lines, pstats, fetch>>

CallPatternToRegexEndAnchor ==
    /\ pc = "call"
    /\ pc' = "return"
    /\ fn' = "PatternToRegexEndAnchor"
    /\ ret' = PatternToRegexEndAnchor(arg)
    /\ UNCHANGED <<arg, filters, idx, rules, stats, lines, pstats, fetch>>

InitValidate == InitCall(Regexes)

NextValidate == CallValidateRegex \/ CallContainsDisjunction

SpecValidate == InitValidate /\ [][NextValidate]_vars

InitTranslate == InitCall(Patterns)

NextTranslate ==
    \/ CallPatternToRegex
    \/ CallPatternEndsWithSeparator
    \/ CallPatternToRegexEndAnchor

SpecTranslate == InitTranslate /\ [][NextTranslate]_vars

-----------------------------------------------------------------------------
(* The parser called on its own: parseLine on a line, Parse on a list of
   lines.  parseLine is called by Parse only, on a trimmed line that is not
   empty. *)

\* lines of filter markers, token by token
MarkerTokens ==
    { <<"!">>, <<"[">>, <<"#">>, <<"@">>, Chars("+js("), <<"^">>, Chars(":has("),
      <<"a">>, Chars("$csp=a") }
MarkerLines == { Flatten(ts) : ts \in SeqsUpTo(MarkerTokens, MaxTokens) }

\* network lines with options, token by token
NetworkTokens ==
    { <<"a">>, <<"$">>, <<"\\">>, <<"/">>, <<",">>, Chars("csp"), <<"=">>,
      Chars("script") }
NetworkLines == { Flatten(ts) : ts \in SeqsUpTo(NetworkTokens, MaxTokens) }

\* one line for each unsupported option, procedural operator and option form
OptionLines ==
    { Chars("||a^$") \o u \o <<"a">> : u \in UnsupportedOptions }
    \cup { Chars("@@a$script,") \o u : u \in UnsupportedOptions }
    \cup { Chars("a##b") \o o \o Chars("c)") : o \in ProceduralOperators }
    \cup { Chars("a$3p, script ,~image,domain=a|~b | c,match-case"),
           Chars("@@||a^$important,1p,,css,domain=~a"),
           Chars("a, ~b ,,c##.ad"), Chars("a#@#.ad"), Chars("##.ad#@#b") }

ParseLineInputs == (MarkerLines \cup NetworkLines \cup OptionLines) \ {<<>>}

CallParseLine ==
    /\ pc = "call"
    /\ pc' = "return"
    /\ fn' = "parseLine"
    /\ ret' = parseLine(arg)
    /\ UNCHANGED <<arg, filters, idx, rules, stats, lines, pstats, fetch>>

InitParseLine == InitCall(ParseLineInputs)

NextParseLine == CallParseLine

SpecParseLine == InitParseLine /\ [][NextParseLine]_vars

\* the texts the scanner yields, blank and padded ones among them
SampleLines ==
    { <<>>, Chars("  "), Chars("! c"), Chars(" [Adblock]"), Chars("a##+js(b)"),
      Chars("a#@#^b"), Chars("##a:not(b) "), Chars("a,~b##.ad"), Chars("#@#.ad"),
      Chars(" ||a^$script"), Chars("@@a$3p"), Chars("a$csp=b"), Chars("@@a$b,to=c"),
      Chars("$script"), Chars("@@"), Chars("a##") }

LineLists == SeqsUpTo(SampleLines, MaxFilters)

\* p.Parse(r) is called: var filters, the scanner is at the first line
ParseCall(ls) ==
    /\ pc = "idle"
    /\ pc' = "parsing"
    /\ lines' = ls
    /\ idx' = 1
    /\ filters' = <<>>
    /\ UNCHANGED <<pstats, rules, stats, fn, arg, ret, fetch>>

\* lines 68-86 of Parse: the stats and the filters after a line parsed as p
Keep(p) ==
    /\ pstats' = CountFilter(parserSkip(pstats, p.reason), p.filter.Type)
    /\ filters' = IF IsKept(p.filter.Type) THEN Append(filters, p.filter) ELSE filters

\* one iteration of the loop of Parse
ParseStep ==
    /\ pc = "parsing"
    /\ idx <= Len(lines)
    /\ IF TrimSpace(lines[idx]) = <<>> THEN UNCHANGED <<pstats, filters>>
       ELSE Keep(parseLine(TrimSpace(lines[idx])))
    /\ idx' = idx + 1
    /\ UNCHANGED <<pc, lines, rules, stats, fn, arg, ret, fetch>>

\* the scanner is at the end: return filters
ParseReturn ==
    /\ pc = "parsing"
    /\ idx > Len(lines)
    /\ pc' = "parsed"
    /\ UNCHANGED <<lines, idx, filters, pstats, rules, stats, fn, arg, ret, fetch>>

\* parser.New(): a fresh Parser for the next list
NewParser ==
    /\ pc = "parsed"
    /\ pc' = "idle"
    /\ lines' = <<>>
    /\ idx' = 0
    /\ filters' = <<>>
    /\ pstats' = NewParserStats
    /\ UNCHANGED <<rules, stats, fn, arg, ret, fetch>>

NextParse ==
    \/ \E ls \in LineLists : ParseCall(ls)
    \/ ParseStep
    \/ ParseReturn
    \/ NewParser

SpecParse == Init /\ [][NextParse]_vars

-----------------------------------------------------------------------------
(* splitter.go called on its own: NewSplitter and Split on a rule list, a
   base name and a maximum, Deduplicate on the rule list *)

HidingRule(urlFilter, ifDomain, selector) ==
    WebKitRule(urlFilter, "nil", <<>>, <<>>, ifDomain, <<>>, ActionCSSDisplayNone, selector)

\* rules with the same url-filter, action type and selector and rules that
\* differ in one of them; | is a character of the texts of two of them
SampleRules ==
    { HidingRule(Chars(".*"), <<>>, Chars(".a")),
      HidingRule(Chars(".*"), <<Chars("*a.b")>>, Chars(".a")),
      WebKitRule(<<"a">>, "nil", <<>>, <<>>, <<>>, <<>>, ActionBlock, <<>>),
      HidingRule(Chars(".*"), <<>>, Chars("a|css-display-none|b")),
      HidingRule(Chars(".*|css-display-none|a"), <<>>, <<"b">>) }

RuleLists == SeqsUpTo(SampleRules, MaxRules)

SplitterInputs ==
    [rules : RuleLists, maxRules : -1..MaxRules, baseName : {Chars("combined")}]

CallNewSplitter ==
    /\ pc = "call"
    /\ pc' = "return"
    /\ fn' = "NewSplitter"
    /\ ret' = NewSplitter(arg.maxRules)
    /\ UNCHANGED <<arg, filters, idx, rules, stats, lines, pstats, fetch>>

CallSplit ==
    /\ pc = "call"
    /\ pc' = "return"
    /\ fn' = "Split"
    /\ ret' = Split(NewSplitter(arg.maxRules), arg.rules, arg.baseName)
    /\ UNCHANGED <<arg, filters, idx, rules, stats, lines, pstats, fetch>>

CallDeduplicate ==
    /\ pc = "call"
    /\ pc' = "return"
    /\ fn' = "Deduplicate"
    /\ ret' = Deduplicate(arg.rules)
    /\ UNCHANGED <<arg, filters, idx, rules, stats, lines, pstats, fetch>>

InitSplitter == InitCall(SplitterInputs)

NextSplitter == CallNewSplitter \/ CallSplit \/ CallDeduplicate

SpecSplitter == InitSplitter /\ [][NextSplitter]_vars

-----------------------------------------------------------------------------
(* The Fetcher: New, then Fetch under a context that may be cancelled at any
   time.  pc is "ready" after New, "fetch-loop" at the loop test of Fetch,
   "fetch-wait" at the select, "fetch-download" in doFetch and "fetched" after
   the return. *)

\* the bodies a download can return
Bodies == { <<>>, Chars("a##b") }

\* fetcher.New(cfg)
NewFetcher(cfgRetries) ==
    /\ pc = "idle"
    /\ pc' = "ready"
    /\ fetch' = [NoFetch EXCEPT !.cfgRetries = cfgRetries,
                                !.retries = FetcherRetries(cfgRetries)]
    /\ UNCHANGED <<filters, idx, rules, stats, fn, arg, ret, lines, pstats>>

\* the addresses Fetch is called with
Urls == { Chars("http://a/easylist.txt"), Chars("http://b/privacy.txt") }

\* f.Fetch(ctx, url) is called, with a context that is done or not
FetchCall(url, done) ==
    /\ pc = "ready"
    /\ pc' = "fetch-loop"
    /\ fetch' = [fetch EXCEPT !.url = url, !.i = 0, !.ctxDone = done]
    /\ UNCHANGED <<filters, idx, rules, stats, fn, arg, ret, lines, pstats>>

\* the context is cancelled or its deadline passes while Fetch runs
CtxDone ==
    /\ pc \in {"fetch-loop", "fetch-wait", "fetch-download"}
    /\ ~fetch.ctxDone
    /\ fetch' = [fetch EXCEPT !.ctxDone = TRUE]
    /\ UNCHANGED <<pc, filters, idx, rules, stats, fn, arg, ret, lines, pstats>>

\* lines 43-44 and 60: the loop test, then the wait, the download or the
\* return of the error
FetchLoop ==
    /\ pc = "fetch-loop"
    /\ IF fetch.i < fetch.retries
       THEN /\ pc' = IF fetch.i > 0 THEN "fetch-wait" ELSE "fetch-download"
            /\ UNCHANGED fetch
       ELSE /\ pc' = "fetched"
            /\ fetch' = [fetch EXCEPT !.data = NilBytes, !.err = "failed"]
    /\ UNCHANGED <<filters, idx, rules, stats, fn, arg, ret, lines, pstats>>

\* lines 47-48: the select takes ctx.Done()
FetchWaitCtx ==
    /\ pc = "fetch-wait"
    /\ fetch.ctxDone
    /\ pc' = "fetched"
    /\ fetch' = [fetch EXCEPT !.data = NilBytes, !.err = "ctx"]
    /\ UNCHANGED <<filters, idx, rules, stats, fn, arg, ret, lines, pstats>>

\* line 49: the select takes the timer, which is set to i seconds when the
\* select starts and so fires first only under a context that is not done
FetchWaitTimer ==
    /\ pc = "fetch-wait"
    /\ ~fetch.ctxDone
    /\ pc' = "fetch-download"
    /\ UNCHANGED <<fetch, filters, idx, rules, stats, fn, arg, ret, lines, pstats>>

\* lines 53-57: doFetch returns the body, and Fetch returns it, or doFetch
\* returns an error, as it does under a context that is done, and the loop
\* goes on
FetchDownload(ok, body) ==
    /\ pc = "fetch-download"
    /\ ok => ~fetch.ctxDone
    /\ IF ok
       THEN /\ pc' = "fetched"
            /\ fetch' = [fetch EXCEPT !.data = Bytes(body), !.err = "nil",
                                      !.served = Append(@, Downloaded(body))]
       ELSE /\ pc' = "fetch-loop"
            /\ fetch' = [fetch EXCEPT !.i = @ + 1, !.served = Append(@, DownloadFailed)]
    /\ UNCHANGED <<filters, idx, rules, stats, fn, arg, ret, lines, pstats>>

\* the steps of Fetch itself
FetchRuns ==
    \/ FetchLoop
    \/ FetchWaitCtx
    \/ FetchWaitTimer
    \/ \E ok \in BOOLEAN, body \in Bodies : FetchDownload(ok, body)

NextFetch ==
    \/ \E cfgRetries \in -1..MaxRetries : NewFetcher(cfgRetries)
    \/ \E url \in Urls, done \in BOOLEAN : FetchCall(url, done)
    \/ CtxDone
    \/ FetchRuns

SpecFetch == Init /\ [][NextFetch]_vars

\* the timer of the select fires and the http.Client, which has a timeout,
\* returns: a running Fetch takes its next step
FairSpecFetch == SpecFetch /\ WF_vars(FetchRuns)

-----------------------------------------------------------------------------
(* The option functions of the parser called on their own: parseOptions on
   the text after the `$`, parseDomainOption on the value of a domain= option,
   mapResourceType on an option token. *)

\* option texts, token by token
OptionWords ==
    { <<"a">>, <<"~">>, <<"|">>, <<",">>, <<" ">>, Chars("domain="),
      Chars("script"), Chars("xhr"), Chars("ping") }
OptionTexts == { Flatten(ts) : ts \in SeqsUpTo(OptionWords, MaxTokens) }

CallParseOptions ==
    /\ pc = "call"
    /\ pc' = "return"
    /\ fn' = "parseOptions"
    /\ ret' = parseOptions(arg)
    /\ UNCHANGED <<arg, filters, idx, rules, stats, lines, pstats, fetch>>

CallParseDomainOption ==
    /\ pc = "call"
    /\ pc' = "return"
    /\ fn' = "parseDomainOption"
    /\ ret' = parseDomainOption(arg)
    /\ UNCHANGED <<arg, filters, idx, rules, stats, lines, pstats, fetch>>

CallMapResourceType ==
    /\ pc = "call"
    /\ pc' = "return"
    /\ fn' = "mapResourceType"
    /\ ret' = mapResourceType(arg)
    /\ UNCHANGED <<arg, filters, idx, rules, stats, lines, pstats, fetch>>

InitOptions == InitCall(OptionTexts)

NextOptions ==
    \/ CallParseOptions
    \/ CallParseDomainOption
    \/ CallMapResourceType

SpecOptions == InitOptions /\ [][NextOptions]_vars

-----------------------------------------------------------------------------
(* expandCharacterClasses called on its own, on the body of a regex literal,
   and PatternToRegex on the literal *)

\* bodies of regex literals, token by token
ShorthandTokens ==
    { <<"\\">>, <<"w">>, <<"W">>, <<"d">>, <<"D">>, <<"s">>, <<"S">>, <<"a">>,
      <<"{", "3", ",", "}">> }
ShorthandBodies == { Flatten(ts) : ts \in SeqsUpTo(ShorthandTokens, MaxTokens) }
ShorthandLiterals == { <<"/">> \o b \o <<"/">> : b \in ShorthandBodies }

CallExpandCharacterClasses ==
    /\ pc = "call"
    /\ pc' = "return"
    /\ fn' = "expandCharacterClasses"
    /\ ret' = expandCharacterClasses(arg)
    /\ UNCHANGED <<arg, filters, idx, rules, stats, lines, pstats, fetch>>

InitExpand == InitCall(ShorthandBodies \cup ShorthandLiterals)

NextExpand ==
    \/ CallExpandCharacterClasses
    \/ CallPatternToRegex

SpecExpand == InitExpand /\ [][NextExpand]_vars

-----------------------------------------------------------------------------
(* The combined output: the rules Convert returned go through Deduplicate *)

\* runConvert, lines 211-214: allRules = converter.Deduplicate(allRules); ret
\* is allRules after the call, rules what Convert returned
DeduplicateCombined ==
    /\ pc = "done"
    /\ Len(rules) > 0
    /\ pc' = "combined"
    /\ fn' = "Deduplicate"
    /\ ret' = Deduplicate(rules)
    /\ UNCHANGED <<filters, idx, rules, stats, arg, lines, pstats, fetch>>

NextCombined ==
    \/ \E fs \in FilterLists : ConvertCall(fs)
    \/ ConvertStep
    \/ ConvertReturn
    \/ New
    \/ DeduplicateCombined

SpecCombined == Init /\ [][NextCombined]_vars

\* fn returned for the argument arg
Returned(name) == pc = "return" /\ fn = name

-----------------------------------------------------------------------------
(* Properties of Convert *)

\* the filter the loop of Convert is about to convert
AtFilter == pc = "converting" /\ idx <= Len(filters)

\* the rules the step appended to rules
Emitted == SubSeq(rules', Len(rules) + 1, Len(rules'))

\* C1: no rule returned by Convert, whatever the filters and their include
\* and exclude domains, has both a non-empty if-domain and a non-empty
\* unless-domain.
C1_NeverBothDomains ==
    \A i \in 1..Len(rules) :
        ~(Len(rules[i].Trigger.IfDomain) > 0 /\ Len(rules[i].Trigger.UnlessDomain) > 0)

\* a returned list with an if-domain rule and an unless-domain rule, from one
\* filter that has include and exclude domains
C1_Witness ==
    /\ pc = "done"
    /\ Len(filters) = 1
    /\ \/ /\ filters[1].Type \in NetworkTypes
          /\ Len(filters[1].Options.Domains) > 0
          /\ Len(filters[1].Options.ExcludeDomains) > 0
       \/ /\ filters[1].Type = FilterTypeCosmetic
          /\ Len(PartitionDomains(filters[1].Domains, FALSE)) > 0
          /\ Len(PartitionDomains(filters[1].Domains, TRUE)) > 0
    /\ \E i, j \in 1..Len(rules) :
          /\ Len(rules[i].Trigger.IfDomain) > 0
          /\ Len(rules[j].Trigger.UnlessDomain) > 0

\* the fields the rules of one network filter share
SharedFields(r) ==
    <<r.Trigger.URLFilterIsCaseSensitive, r.Trigger.ResourceType,
      r.Trigger.LoadType, r.Action>>

\* e is the split of a filter with include domains inc and exclude domains
\* exc: a first half of if-domain rules, a second half of unless-domain rules
IsDomainSplit(e, half, inc, exc) ==
    /\ Len(e) = 2 * half
    /\ \A i \in 1..Len(e) :
          /\ i <= half => /\ e[i].Trigger.IfDomain = inc
                          /\ e[i].Trigger.UnlessDomain = <<>>
          /\ i > half => /\ e[i].Trigger.IfDomain = <<>>
                         /\ e[i].Trigger.UnlessDomain = exc
          /\ SharedFields(e[i]) = SharedFields(e[1])

\* C2: a Network or Exception filter with a valid regex and non-empty include
\* and exclude domains yields exactly 2 rules without an end-anchor variant
\* and exactly 4 with one: the if-domain rules carry only the normalized
\* include set, the unless-domain rules only the normalized exclude set, and
\* all share case-sensitivity, resource-type, load-type and action.
C2_DomainSplit ==
    [][(/\ AtFilter
        /\ filters[idx].Type \in NetworkTypes
        /\ Len(filters[idx].Options.Domains) > 0
        /\ Len(filters[idx].Options.ExcludeDomains) > 0
        /\ ValidateRegex(PatternToRegex(filters[idx].Pattern)))
       => IsDomainSplit(Emitted,
                        IF NeedsEndAnchorVariant(filters[idx].Pattern) THEN 2 ELSE 1,
                        normalizeDomains(filters[idx].Options.Domains),
                        normalizeDomains(filters[idx].Options.ExcludeDomains))]_vars

\* a filter with both domain sets and an end-anchor variant gave 4 rules
C2_Witness ==
    /\ pc = "done"
    /\ Len(filters) = 1
    /\ filters[1].Type \in NetworkTypes
    /\ Len(filters[1].Options.Domains) > 1
    /\ Len(filters[1].Options.ExcludeDomains) > 0
    /\ Len(rules) = 4
    /\ rules[2].Trigger.IfDomain = normalizeDomains(filters[1].Options.Domains)
    /\ rules[4].Trigger.UnlessDomain = normalizeDomains(filters[1].Options.ExcludeDomains)

\* C3: every rule returned by Convert has a url-filter that ValidateRegex
\* accepts, the separator-class one and the end-anchor one of a Network or
\* Exception filter alike, and the url-filter of a cosmetic rule is `.*`.
C3_ValidURLFilter ==
    \A i \in 1..Len(rules) :
        /\ ValidateRegex(rules[i].Trigger.URLFilter)
        /\ rules[i].Action.Type = ActionCSSDisplayNone
             => rules[i].Trigger.URLFilter = <<".", "*">>

\* a returned list with a separator-class rule, its end-anchor rule and a
\* cosmetic rule
C3_Witness ==
    /\ pc = "done"
    /\ \E i \in 1..Len(filters) :
          /\ filters[i].Type \in NetworkTypes
          /\ \E j \in 1..Len(rules) :
                rules[j].Trigger.URLFilter = PatternToRegexEndAnchor(filters[i].Pattern)
    /\ \E j \in 1..Len(rules) : rules[j].Action.Type = ActionCSSDisplayNone

\* C4: when the translation of a Network or Exception filter's pattern fails
\* validation, the filter contributes zero rules, Skipped and the
\* "invalid-regex" counter each grow by exactly one, Converted and the other
\* reasons are unchanged, and the loop goes on to the filters after it:
\* Convert returns only after the last filter.
C4_InvalidRegexSkipped ==
    /\ [](pc = "done" => idx = Len(filters) + 1)
    /\ [][(/\ AtFilter
           /\ filters[idx].Type \in NetworkTypes
           /\ ~ValidateRegex(PatternToRegex(filters[idx].Pattern)))
          => /\ rules' = rules
             /\ stats'.Skipped = stats.Skipped + 1
             /\ SkipCount(stats', "invalid-regex") = SkipCount(stats, "invalid-regex") + 1
             /\ \A r \in DOMAIN stats.SkipReasons \ {"invalid-regex"} :
                   SkipCount(stats', r) = SkipCount(stats, r)
             /\ stats'.Converted = stats.Converted
             /\ pc' = "converting"
             /\ filters' = filters
             /\ idx' = idx + 1]_vars

\* a list whose first filter failed validation and whose second was converted
C4_Witness ==
    /\ pc = "done"
    /\ Len(filters) = 2
    /\ filters[1].Type \in NetworkTypes
    /\ ~ValidateRegex(PatternToRegex(filters[1].Pattern))
    /\ stats.Skipped = 1
    /\ SkipCount(stats, "invalid-regex") = 1
    /\ stats.Converted = Len(rules)
    /\ Len(rules) > 0

\* the pattern, after one trailing | is stripped, ends in ^
EndsInCaret(p) ==
    LET q == IF p # <<>> /\ p[Len(p)] = "|" THEN SubSeq(p, 1, Len(p) - 1) ELSE p
    IN  q # <<>> /\ q[Len(q)] = "^"

\* e pairs every rule with the same rule under the url-filter endRegex
IsPaired(e, regex, endRegex) ==
    /\ Len(e) % 2 = 0
    /\ \A i \in 1..Len(e) :
          i % 2 = 1 => /\ e[i].Trigger.URLFilter = regex
                       /\ e[i + 1] = [e[i] EXCEPT !.Trigger.URLFilter = endRegex]

\* the number of separator-class rules of f
SeparatorRuleCount(f) ==
    IF Len(f.Options.Domains) > 0 /\ Len(f.Options.ExcludeDomains) > 0 THEN 2 ELSE 1

-----------------------------------------------------------------------------
(* Properties of regex.go *)

\* the number of backslashes that end at position i of r
RECURSIVE BackslashRun(_, _)
BackslashRun(r, i) ==
    IF i >= 1 /\ r[i] = "\\" THEN 1 + BackslashRun(r, i - 1) ELSE 0

\* the character at position i of r is escaped by a backslash
Escaped(r, i) == BackslashRun(r, i - 1) % 2 = 1

EndsInUnescapedDollar(r) ==
    r # <<>> /\ r[Len(r)] = "$" /\ ~Escaped(r, Len(r))

\* C6: for every pattern that ends in ^ or ^|, PatternToRegexEndAnchor
\* returns a regex that ends in an unescaped $, the end-of-string anchor put
\* after the translation of the pattern without its trailing | and ^.
C6_EndsInUnescapedDollar ==
    (Returned("PatternToRegexEndAnchor") /\ EndsInCaret(arg))
        => EndsInUnescapedDollar(ret)

IsDigits(s) == s # <<>> /\ \A i \in 1..Len(s) : s[i] \in Digits

\* b is n, or n followed by a comma, or n,m
IsQuantifierBody(b) ==
    \E k \in 1..Len(b) :
        /\ IsDigits(SubSeq(b, 1, k))
        /\ \/ k = Len(b)
           \/ /\ b[k + 1] = ","
              /\ k + 1 = Len(b) \/ IsDigits(SubSeq(b, k + 2, Len(b)))

\* r contains {n}, {n,} or {n,m}
ContainsNumericQuantifier(r) ==
    \E i, j \in 1..Len(r) :
        i < j /\ r[i] = "{" /\ r[j] = "}" /\ IsQuantifierBody(SubSeq(r, i + 1, j - 1))

\* C7: ValidateRegex returns false for every regex that contains a numeric
\* quantifier {n}, {n,} or {n,m}, wherever it occurs.
C7_NumericQuantifierRejected ==
    (Returned("ValidateRegex") /\ ContainsNumericQuantifier(arg)) => ret = FALSE

\* position i of r is inside a character class: an unescaped [ before it is
\* not followed by an unescaped ] before i
InClass(r, i) ==
    \E j \in 1..(i - 1) :
        /\ r[j] = "[" /\ ~Escaped(r, j)
        /\ \A k \in (j + 1)..(i - 1) : ~(r[k] = "]" /\ ~Escaped(r, k))

\* r has a | that is neither escaped nor inside a character class
HasDisjunction(r) ==
    \E i \in 1..Len(r) : r[i] = "|" /\ ~Escaped(r, i) /\ ~InClass(r, i)

\* C8: containsDisjunction(r) is true, and hence ValidateRegex(r) false,
\* exactly when r has a | that is neither backslash-escaped nor inside a
\* character class: a | inside [...] or written \| is not reported, a | after
\* a closed class is.
C8_DisjunctionDetected ==
    /\ Returned("containsDisjunction") => (ret <=> HasDisjunction(arg))
    /\ (Returned("ValidateRegex") /\ HasDisjunction(arg)) => ret = FALSE

\* a | after a closed class was reported
C8_Witness ==
    /\ Returned("containsDisjunction")
    /\ arg = <<"[", "|", "]", "|">>
    /\ ret = TRUE

\* r contains the open quantifier {n,}
ContainsOpenQuantifier(r) ==
    \E i, j \in 1..Len(r) :
        /\ i + 2 < j /\ r[i] = "{" /\ r[j] = "}" /\ r[j - 1] = ","
        /\ IsDigits(SubSeq(r, i + 1, j - 2))

\* r contains the exact quantifier {n}
ContainsExactQuantifier(r) ==
    \E i, j \in 1..Len(r) :
        i + 1 < j /\ r[i] = "{" /\ r[j] = "}" /\ IsDigits(SubSeq(r, i + 1, j - 1))

\* the pattern is a regex literal /.../
IsLiteralPattern(p) == Len(p) > 2 /\ p[1] = "/" /\ p[Len(p)] = "/"

LiteralBody(p) == SubSeq(p, 2, Len(p) - 1)

\* the regex b is well formed and the shorthand classes and the open
\* quantifiers are the only constructs of b the target does not support
OnlyShorthandAndOpenQuantifiers(b) ==
    /\ Compiles(b)
    /\ \A u \in UnsupportedConstructs : ~Contains(b, u)
    /\ ~HasDisjunction(b)
    /\ ~ContainsExactQuantifier(b)
    /\ ~MatchNumericQuantifier(b)
    /\ ~MatchNonASCII(b)
    /\ ~MatchWordBoundary(b)

\* the output of PatternToRegex for a regex literal has no {n,}
C9_NoOpenQuantifierLeft ==
    (Returned("PatternToRegex") /\ IsLiteralPattern(arg))
        => ~ContainsOpenQuantifier(ret)

\* an exact quantifier {n} of a regex literal is left in place and the result
\* fails ValidateRegex
C9_ExactQuantifierFails ==
    (Returned("PatternToRegex") /\ IsLiteralPattern(arg)
        /\ ContainsExactQuantifier(LiteralBody(arg)))
        => ContainsExactQuantifier(ret) /\ ~ValidateRegex(ret)

\* a regex literal whose only unsupported constructs are shorthand classes
\* and open quantifiers translates to a regex that passes ValidateRegex
C9_ShorthandLiteralValidates ==
    (Returned("PatternToRegex") /\ IsLiteralPattern(arg)
        /\ OnlyShorthandAndOpenQuantifiers(LiteralBody(arg)))
        => ValidateRegex(ret)

\* C9: for a regex literal /.../, PatternToRegex rewrites every open
\* quantifier {n,} to +, so that its output has no {n,} and a literal whose
\* only unsupported constructs are shorthand classes and open quantifiers
\* passes ValidateRegex; an exact quantifier {n} is left in place and the
\* result fails ValidateRegex.
C9_LiteralApproximation ==
    /\ C9_NoOpenQuantifierLeft
    /\ C9_ShorthandLiteralValidates
    /\ C9_ExactQuantifierFails

\* the pattern without its anchor markers: a || or | prefix, then a trailing |
AnchorlessText(p) ==
    LET rest == IF HasPrefix(p, <<"|", "|">>) THEN Drop(p, 3)
                ELSE IF HasPrefix(p, <<"|">>) THEN Drop(p, 2) ELSE p
    IN  IF HasSuffix(rest, <<"|">>) THEN SubSeq(rest, 1, Len(rest) - 1) ELSE rest

HasTrailingBar(p) ==
    IF HasPrefix(p, <<"|", "|">>) THEN HasSuffix(Drop(p, 3), <<"|">>)
    ELSE IF HasPrefix(p, <<"|">>) THEN HasSuffix(Drop(p, 2), <<"|">>)
    ELSE HasSuffix(p, <<"|">>)

\* the anchor the markers of p put before the translated text body
ExpectedPrefix(p, body) ==
    IF HasPrefix(p, <<"|", "|">>)
    THEN IF HasPrefix(body, <<"\\", ".">>) THEN restrHostnameAnchor2 ELSE restrHostnameAnchor1
    ELSE IF HasPrefix(p, <<"|">>) THEN <<"^">> ELSE <<>>

ExpectedSuffix(p) == IF HasTrailingBar(p) THEN <<"$">> ELSE <<>>

\* C10: for a plain pattern PatternToRegex puts before the translated text
\* the hostname anchor when the pattern starts with ||, the one without the
\* dot when the translated text starts with an escaped dot, otherwise ^ when
\* the pattern starts with |, and puts $ after it when a | ends the pattern,
\* with either prefix; without a marker nothing is put before or after.
C10_Anchors ==
    (Returned("PatternToRegex") /\ arg # <<>> /\ arg # <<"*">>
        /\ ~IsRegexLiteral(AnchorlessText(arg)))
        => ret = ExpectedPrefix(arg, TranslatePlain(AnchorlessText(arg)))
                 \o TranslatePlain(AnchorlessText(arg))
                 \o ExpectedSuffix(arg)

\* a hostname anchor before an escaped dot, with the right anchor
C10_Witness ==
    /\ Returned("PatternToRegex")
    /\ arg = <<"|", "|", ".", "|">>
    /\ ret = restrHostnameAnchor2 \o <<"\\", ".", "$">>

-----------------------------------------------------------------------------
(* Properties of the parser *)

\* str occurs in the line
Has(line, str) == Contains(line, Chars(str))

StartsWith(line, str) == HasPrefix(line, Chars(str))

HasProceduralOperator(line) ==
    \/ Has(line, ":has(") \/ Has(line, ":has-text(") \/ Has(line, ":xpath(")
    \/ Has(line, ":matches-css(") \/ Has(line, ":matches-attr(")
    \/ Has(line, ":min-text-length(") \/ Has(line, ":not(") \/ Has(line, ":upward(")
    \/ Has(line, ":remove(") \/ Has(line, ":style(")

\* the number of the first recognition rule that matches the line
FirstRule(line) ==
    IF StartsWith(line, "!") \/ StartsWith(line, "[") THEN 1
    ELSE IF Has(line, "##+js(") \/ Has(line, "#@#+js(") THEN 2
    ELSE IF Has(line, "##^") \/ Has(line, "#@#^") THEN 3
    ELSE IF HasProceduralOperator(line) THEN 4
    ELSE IF Has(line, "##") /\ ~Has(line, "#@#") THEN 5
    ELSE IF Has(line, "#@#") THEN 6
    ELSE IF StartsWith(line, "@@") THEN 7
    ELSE 8

\* the kind and the skip reason each rule gives
RuleKind(n) ==
    CASE n = 1 -> <<FilterTypeComment, "">>
      [] n = 2 -> <<FilterTypeUnsupported, SkipScriptlet>>
      [] n = 3 -> <<FilterTypeUnsupported, SkipHTMLFilter>>
      [] n = 4 -> <<FilterTypeUnsupported, SkipProcedural>>
      [] n = 5 -> <<FilterTypeCosmetic, "">>
      [] n = 6 -> <<FilterTypeCosmeticException, "">>
      [] n = 7 -> <<FilterTypeException, "">>
      [] n = 8 -> <<FilterTypeNetwork, "">>

\* the kind and the skip reason parseLine returned
ReturnedKind == <<ret.filter.Type, ret.reason>>

IsNetworkCall == Returned("parseLine") /\ FirstRule(arg) \in {7, 8}

\* the text parseNetwork was called with: the line, without its leading @@
NetworkText == IF FirstRule(arg) = 7 THEN Drop(arg, 3) ELSE arg

\* the $ of the text that are neither preceded by a backslash nor followed
\* by a /
OptionDollars(t) ==
    {i \in 1..Len(t) : /\ t[i] = "$"
                       /\ (i = 1 \/ t[i - 1] # "\\")
                       /\ (i = Len(t) \/ t[i + 1] # "/")}

LastOf(S) == CHOOSE i \in S : \A j \in S : j <= i

\* the pattern and the options the claim gives the text t
ClaimedPattern(t) ==
    IF OptionDollars(t) = {} THEN t ELSE SubSeq(t, 1, LastOf(OptionDollars(t)) - 1)

ClaimedOptions(t) ==
    IF OptionDollars(t) = {} THEN ZeroOptions
    ELSE parseOptions(Drop(t, LastOf(OptionDollars(t)) + 1))

\* C12: the Network or Exception filter parseNetwork returns has, as its
\* pattern, the text before the last $ that is neither preceded by a backslash
\* nor followed by /, and the options parsed from the text after it; without
\* such a $ its pattern is the whole text and its options are empty.
C12_SplitAtLastOptionDollar ==
    (IsNetworkCall /\ ret.filter.Type \in NetworkTypes) =>
        /\ ret.filter.Pattern = ClaimedPattern(NetworkText)
        /\ ret.filter.Options = ClaimedOptions(NetworkText)

\* the names of the options that cannot be converted
UnsupportedNames ==
    { Chars("redirect"), Chars("redirect-rule"), Chars("csp"), Chars("removeparam"),
      Chars("replace"), Chars("header"), Chars("method"), Chars("to"),
      Chars("permissions"), Chars("uritransform") }

\* the comma-separated option tokens of the text t
OptionTokens(t) ==
    IF OptionDollars(t) = {} THEN {}
    ELSE { TrimSpace(StringsSplit(Drop(t, LastOf(OptionDollars(t)) + 1), ",")[k]) :
             k \in 1..Len(StringsSplit(Drop(t, LastOf(OptionDollars(t)) + 1), ",")) }

HasUnsupportedToken(t) ==
    \E tok \in OptionTokens(t) : \E n \in UnsupportedNames : HasPrefix(tok, n)

\* C13: a Network or Exception line is discarded as Unsupported with the
\* unsupported-option reason if and only if one of its comma-separated option
\* tokens begins with the name of an unsupported option.
C13_DiscardedIffUnsupportedToken ==
    IsNetworkCall =>
        (ReturnedKind = <<FilterTypeUnsupported, SkipUnsupportedOpt>>
            <=> HasUnsupportedToken(NetworkText))

\* the sum of the counts of a SkipReasons map
RECURSIVE SumOver(_, _)
SumOver(m, keys) ==
    IF keys = {} THEN 0
    ELSE m[CHOOSE k \in keys : TRUE] + SumOver(m, keys \ {CHOOSE k \in keys : TRUE})

ReasonTotal(m) == SumOver(m, DOMAIN m)

\* m[r], 0 for a key the map does not hold
ReasonCount(m, r) == IF r \in DOMAIN m THEN m[r] ELSE 0

\* the map n differs from the map m by one count, raised by one
OneReasonMore(m, n) ==
    \E r \in DOMAIN n :
        /\ n[r] = ReasonCount(m, r) + 1
        /\ DOMAIN n = DOMAIN m \cup {r}
        /\ \A q \in DOMAIN m \ {r} : n[q] = m[q]

KindCounters == {"Comments", "Unsupported", "Network", "Exception", "Cosmetic"}

\* the stats t differ from the stats st by Total and one kind counter, both
\* raised by one
OneKindMore(st, t) ==
    /\ t.Total = st.Total + 1
    /\ \E k \in KindCounters :
          /\ t[k] = st[k] + 1
          /\ \A j \in KindCounters \ {k} : t[j] = st[j]

\* Parse is at a line and passes it
AtLine == pc = "parsing" /\ idx <= Len(lines)

ParserTotals ==
    /\ pstats.Total = pstats.Comments + pstats.Unsupported + pstats.Network
                      + pstats.Exception + pstats.Cosmetic
    /\ ReasonTotal(pstats.SkipReasons) = pstats.Unsupported

LineCounted ==
    AtLine /\ idx' = idx + 1 =>
        IF TrimSpace(lines[idx]) = <<>> THEN pstats' = pstats
        ELSE /\ OneKindMore(pstats, pstats')
             /\ IF pstats'.Unsupported = pstats.Unsupported + 1
                THEN OneReasonMore(pstats.SkipReasons, pstats'.SkipReasons)
                ELSE pstats'.SkipReasons = pstats.SkipReasons

\* C16: while Parse runs, Total is the sum of the kind counters and the skip
\* reasons sum to Unsupported; every non-blank line raises Total and exactly
\* one kind counter by one, an Unsupported line raises exactly one skip-reason
\* count by one, and a blank line changes no counter.
C16_ParserCounters == []ParserTotals /\ [][LineCounted]_vars

\* Parse returned from a blank line followed by a line with an unsupported
\* option, counted once as Unsupported and once under its reason
C16_Witness ==
    /\ pc = "parsed"
    /\ lines = <<Chars("  "), Chars("a$csp=b")>>
    /\ pstats.Total = 1
    /\ pstats.Unsupported = 1
    /\ pstats.SkipReasons = (SkipUnsupportedOpt :> 1)

-----------------------------------------------------------------------------
(* Properties of Convert: cosmetic filters, statistics, order *)

\* the filter the loop is at is a cosmetic one, f
AtCosmetic == AtFilter /\ filters[idx].Type \in CosmeticTypes

HasNegatedToken(ds) == \E i \in 1..Len(ds) : ds[i] # <<>> /\ ds[i][1] = "~"

HasPlainToken(ds) == \E i \in 1..Len(ds) : ds[i] = <<>> \/ ds[i][1] # "~"

\* the step skipped the filter, counting it under the reason and no other
SkippedAs(reason) ==
    /\ Emitted = <<>>
    /\ stats'.Skipped = stats.Skipped + 1
    /\ SkipCount(stats', reason) = SkipCount(stats, reason) + 1
    /\ \A r \in (DOMAIN stats.SkipReasons \cup DOMAIN stats'.SkipReasons) \ {reason} :
          SkipCount(stats', r) = SkipCount(stats, r)

\* r hides the selector everywhere the trigger applies
IsHidingRule(r, selector) ==
    /\ r.Trigger.URLFilter = <<".", "*">>
    /\ r.Action.Type = "css-display-none"
    /\ r.Action.Selector = selector

CosmeticEmitted(f, e) ==
    /\ \A i \in 1..Len(e) : IsHidingRule(e[i], f.Selector)
    /\ IF HasNegatedToken(f.Domains) /\ HasPlainToken(f.Domains)
       THEN /\ Len(e) = 2
            /\ e[1].Trigger.IfDomain # <<>> /\ e[1].Trigger.UnlessDomain = <<>>
            /\ e[2].Trigger.IfDomain = <<>> /\ e[2].Trigger.UnlessDomain # <<>>
       ELSE /\ Len(e) = 1
            /\ (e[1].Trigger.IfDomain # <<>>) = HasPlainToken(f.Domains)
            /\ (e[1].Trigger.UnlessDomain # <<>>) = HasNegatedToken(f.Domains)
    /\ stats'.Skipped = stats.Skipped
    /\ stats'.SkipReasons = stats.SkipReasons

\* C14: a cosmetic filter with an empty selector yields no rule and the reason
\* "empty-selector"; otherwise a CosmeticException yields no rule and the
\* reason "cosmetic-exception"; otherwise the filter yields css-display-none
\* rules with url-filter .* and its selector: two, the first with if-domain
\* only and the second with unless-domain only, when its domains hold negated
\* and plain tokens, and one, with if-domain, unless-domain or neither,
\* when they do not.
C14_CosmeticRules ==
    [][AtCosmetic /\ idx' = idx + 1 =>
          IF filters[idx].Selector = <<>> THEN SkippedAs("empty-selector")
          ELSE IF filters[idx].Type = FilterTypeCosmeticException
          THEN SkippedAs("cosmetic-exception")
          ELSE CosmeticEmitted(filters[idx], Emitted)]_vars

\* Convert returned the two rules of a##.a with the domains a.b and ~b
C14_Witness ==
    /\ pc = "done"
    /\ Len(filters) = 1
    /\ filters[1].Type = FilterTypeCosmetic
    /\ filters[1].Domains = <<DomA, <<"~", "b">>>>
    /\ Len(rules) = 2
    /\ rules[1].Trigger.IfDomain = <<Chars("*a.b")>>
    /\ rules[2].Trigger.UnlessDomain = <<Chars("*b")>>

ConverterTotals ==
    /\ stats.Converted = Len(rules)
    /\ ReasonTotal(stats.SkipReasons) = stats.Skipped

\* the step appended one rule or more and counted no skip
Contributed ==
    /\ Len(rules') > Len(rules)
    /\ SubSeq(rules', 1, Len(rules)) = rules
    /\ stats'.Converted = stats.Converted + Len(Emitted)
    /\ stats'.Skipped = stats.Skipped
    /\ stats'.SkipReasons = stats.SkipReasons

\* the step appended no rule and counted one skip, under one reason
CountedSkip ==
    /\ rules' = rules
    /\ stats'.Converted = stats.Converted
    /\ stats'.Skipped = stats.Skipped + 1
    /\ OneReasonMore(stats.SkipReasons, stats'.SkipReasons)

FilterCounted ==
    AtFilter /\ idx' = idx + 1 =>
        IF filters[idx].Type \in NetworkTypes \cup CosmeticTypes
        THEN Contributed \/ CountedSkip
        ELSE rules' = rules /\ stats' = stats

\* C15: while Convert runs, Converted is the number of rules collected and
\* the skip reasons sum to Skipped; every Network, Exception, Cosmetic or
\* CosmeticException filter either contributes at least one rule or raises
\* Skipped and exactly one skip-reason count by one; a filter of another kind
\* changes neither the rules nor the statistics.
C15_ConverterCounters == []ConverterTotals /\ [][FilterCounted]_vars

\* Convert returned from a cosmetic filter without selector, a comment and
\* nothing else: one skip and no rule
C15_Witness ==
    /\ pc = "done"
    /\ Len(filters) = 2
    /\ filters[1].Type = FilterTypeCosmetic /\ filters[1].Selector = <<>>
    /\ filters[2].Type = FilterTypeComment
    /\ stats = [Converted |-> 0, Skipped |-> 1, SkipReasons |-> ("empty-selector" :> 1)]
    /\ rules = <<>>

\* the rules Convert returns for the filter f alone, on a fresh Converter
RulesAlone(f) == ConvertOne(f).out.rules

\* C17: the rules Convert has collected after the first filters of its
\* argument, and so the rules it returns, are the rules each of these filters
\* yields on its own, concatenated in the order of the filters.
C17_InputOrder ==
    pc \in {"converting", "done"} =>
        rules = Join([i \in 1..(idx - 1) |-> RulesAlone(filters[i])])

\* Convert returned the rules of two filters that yield different rules, the
\* rules of the first before the rules of the second
C17_Witness ==
    /\ pc = "done"
    /\ Len(filters) = 2
    /\ RulesAlone(filters[1]) # <<>>
    /\ RulesAlone(filters[2]) # <<>>
    /\ RulesAlone(filters[1]) # RulesAlone(filters[2])
    /\ rules = RulesAlone(filters[1]) \o RulesAlone(filters[2])
    /\ rules # RulesAlone(filters[2]) \o RulesAlone(filters[1])

-----------------------------------------------------------------------------
(* Properties of splitter.go *)

\* the maximum a splitter made with maxRules works with
EffectiveMax(maxRules) == IF maxRules <= 0 THEN 50000 ELSE maxRules

\* the least k with k * m >= n
Ceiling(n, m) == CHOOSE k \in 0..n : k * m >= n /\ \A j \in 0..(k - 1) : j * m < n

NameOfPart(base, k) == base \o Chars("-part") \o Itoa(k)

\* the map has the parts 1..k of the rules rs, each of at most m rules, all
\* but the last of m, none empty, and in part order they make up rs
IsPartition(map, rs, base, m, k) ==
    /\ DOMAIN map = {NameOfPart(base, i) : i \in 1..k}
    /\ Cardinality(DOMAIN map) = k
    /\ \A i \in 1..k : Len(map[NameOfPart(base, i)]) \in 1..m
    /\ \A i \in 1..(k - 1) : Len(map[NameOfPart(base, i)]) = m
    /\ Join([i \in 1..k |-> map[NameOfPart(base, i)]]) = rs

\* C18: a splitter made with a maximum <= 0 works with 50000; Split returns
\* the single entry base -> rules when the rules are no more than the maximum
\* m, and otherwise the ceil(len/m) entries base-part1 .. base-partK, each of
\* at most m rules, all but the last of m, none empty, that concatenated in
\* part order give the rules.
C18_SplitPartitions ==
    /\ Returned("NewSplitter") => ret.maxRules = EffectiveMax(arg.maxRules)
    /\ Returned("Split") =>
          IF Len(arg.rules) <= EffectiveMax(arg.maxRules)
          THEN DOMAIN ret = {arg.baseName} /\ ret[arg.baseName] = arg.rules
          ELSE IsPartition(ret, arg.rules, arg.baseName, EffectiveMax(arg.maxRules),
                           Ceiling(Len(arg.rules), EffectiveMax(arg.maxRules)))

\* Split returned three rules in the two parts of a maximum of two
C18_Witness ==
    /\ Returned("Split")
    /\ arg.maxRules = 2
    /\ Len(arg.rules) = 3
    /\ arg.rules[1] # arg.rules[2] /\ arg.rules[2] # arg.rules[3]
    /\ DOMAIN ret = {Chars("combined-part1"), Chars("combined-part2")}
    /\ ret[Chars("combined-part1")] = SubSeq(arg.rules, 1, 2)
    /\ ret[Chars("combined-part2")] = <<arg.rules[3]>>

\* the three fields the deduplicator is keyed on
Triple(r) == <<r.Trigger.URLFilter, r.Action.Type, r.Action.Selector>>

\* the places of the rules that no earlier rule shares its triple with
FirstPlaces(rs) ==
    {i \in 1..Len(rs) : \A j \in 1..(i - 1) : Triple(rs[j]) # Triple(rs[i])}

\* the rules of rs at the places P, in the order of rs
RulesAt(rs, P) ==
    Join([i \in 1..Len(rs) |-> IF i \in P THEN <<rs[i]>> ELSE <<>>])

-----------------------------------------------------------------------------
(* Properties of the Fetcher *)

\* the attempts Fetch has made
Attempts == Len(fetch.served)

\* the attempts a Fetcher configured with n retries may make
AttemptBudget(n) == IF n = 0 THEN 3 ELSE IF n < 0 THEN 0 ELSE n

\* every attempt before the last has failed
EarlierFailed == \A k \in 1..(Attempts - 1) : fetch.served[k].err # "nil"

FetchRunning == pc \in {"fetch-loop", "fetch-wait", "fetch-download"}

\* what holds while Fetch runs and after it has returned
FetchSafe ==
    /\ (FetchRunning \/ pc = "fetched") =>
          /\ Attempts <= AttemptBudget(fetch.cfgRetries)
          /\ EarlierFailed
    /\ FetchRunning => (Attempts = 0 \/ fetch.served[Attempts].err # "nil")
    /\ (pc = "fetched" /\ fetch.err = "nil") =>
          /\ Attempts >= 1
          /\ fetch.served[Attempts].err = "nil"
          /\ fetch.data = fetch.served[Attempts].data
          /\ ~fetch.data.nil
    /\ (pc = "fetched" /\ fetch.err # "nil") =>
          /\ fetch.data = NilBytes
          /\ \A k \in 1..Attempts : fetch.served[k].err # "nil"
    /\ (pc = "fetched" /\ fetch.err = "failed") =>
          Attempts = AttemptBudget(fetch.cfgRetries)
    /\ (pc = "fetched" /\ fetch.err = "ctx") =>
          /\ fetch.ctxDone
          /\ Attempts >= 1
          /\ Attempts < AttemptBudget(fetch.cfgRetries)

\* a context done at the wait before a retry ends the call with the
\* context's error, and no attempt is made
DoneWhileWaiting ==
    (pc = "fetch-wait" /\ fetch.ctxDone) =>
        \/ pc' = "fetched" /\ fetch'.err = "ctx" /\ fetch'.served = fetch.served
        \/ UNCHANGED vars

\* nothing follows the return
ReturnIsFinal == pc = "fetched" => UNCHANGED vars

\* C20: a Fetch call ends after at most `retries` attempts (3 when 0 is
\* configured, none when the value is negative).  It returns the body of the
\* first successful attempt with a nil error and attempts nothing after it;
\* with a context found done at the wait before a retry it returns the
\* context's error; after `retries` failed attempts it returns a non-nil error;
\* and it never returns a nil error without a successful attempt.
C20_FetchTerminates ==
    /\ []FetchSafe
    /\ [][DoneWhileWaiting /\ ReturnIsFinal]_vars
    /\ (FetchRunning ~> pc = "fetched")

\* C20 case: configured with 0, Fetch has used up the default of 3 attempts
C20_Witness ==
    /\ pc = "fetched"
    /\ fetch.cfgRetries = 0
    /\ fetch.err = "failed"
    /\ Attempts = 3

\* a second attempt returned a body
C20_RetrySucceeds ==
    /\ pc = "fetched"
    /\ fetch.err = "nil"
    /\ Attempts = 2

\* the context's error is returned
C20_CtxReturned == pc = "fetched" /\ fetch.err = "ctx"
-----------------------------------------------------------------------------
(* Properties of the option functions *)

\* the strings of a list
Range(q) == { q[k] : k \in 1..Len(q) }

\* C21: the include and the exclude list parsed from the value of a domain=
\* option have no domain in common, in parseDomainOption's result and in the
\* FilterOptions parseOptions returns.
C21_DomainListsDisjoint ==
    /\ Returned("parseDomainOption") => Range(ret.include) \cap Range(ret.exclude) = {}
    /\ Returned("parseOptions") => Range(ret.Domains) \cap Range(ret.ExcludeDomains) = {}
-----------------------------------------------------------------------------
(* Properties of the filters Parse returns *)

\* the filter has a pattern and no selector
HasPatternOnly(f) == f.Pattern # <<>> /\ f.Selector = <<>>

\* the filter has a selector and no pattern
HasSelectorOnly(f) == f.Selector # <<>> /\ f.Pattern = <<>>

\* C22: every filter Parse returns has exactly one of Pattern and Selector
\* non-empty: a Network or Exception filter the Pattern, a Cosmetic or
\* CosmeticException filter the Selector.
C22_PatternOrSelector ==
    pc = "parsed" =>
        \A k \in 1..Len(filters) :
            /\ filters[k].Type \in {FilterTypeNetwork, FilterTypeException} =>
                  HasPatternOnly(filters[k])
            /\ filters[k].Type \in {FilterTypeCosmetic, FilterTypeCosmeticException} =>
                  HasSelectorOnly(filters[k])
-----------------------------------------------------------------------------
(* Properties of FilterOptions.ResourceTypes *)

\* the target tags of the lookup table of mapResourceType
RecognizedTypes ==
    { ResourceScript, ResourceImage, ResourceStyleSheet, ResourceFont,
      ResourceMedia, ResourceRaw, ResourceDocument, ResourcePopup }

\* the option tokens of the text t
OptionParts(t) == Range(TrimmedParts(t, ","))

\* the tokens of t that parseOptions looks up in the table
LookedUp(t) ==
    { p \in OptionParts(t) :
        /\ p \notin { Chars("third-party"), Chars("3p"), Chars("~third-party"),
                      Chars("~3p"), Chars("first-party"), Chars("1p"),
                      Chars("match-case"), Chars("important") }
        /\ ~HasPrefix(p, Chars("domain=")) }

\* no value is twice in the list
NoRepeat(q) == \A i \in 1..Len(q) : \A j \in 1..Len(q) : i # j => q[i] # q[j]

\* C23: after parseOptions, ResourceTypes holds no value twice, every value
\* is a recognized target tag, and a token that matches no entry of the lookup
\* table adds nothing: the values are those of the tokens that match.
C23_ResourceTypesIsSet ==
    Returned("parseOptions") =>
        /\ NoRepeat(ret.ResourceTypes)
        /\ Range(ret.ResourceTypes) \subseteq RecognizedTypes
        /\ Range(ret.ResourceTypes) = { mapResourceType(p) : p \in LookedUp(arg) } \ {""}

\* the types t names with a ~ before them, and without
NegatedTypes(t) == { ResourceTypeOf(Tail(p)) : p \in { q \in LookedUp(t) : IsNegated(q) } } \ {""}

PlainTypes(t) == { ResourceTypeOf(p) : p \in LookedUp(t) } \ {""}

\* C30: a token ~T, T a recognized type, does not add T to ResourceTypes: a
\* type the text names only negated is not in the list
C30_NegatedTypeNotAdded ==
    Returned("parseOptions") =>
        \A T \in NegatedTypes(arg) \ PlainTypes(arg) : T \notin Range(ret.ResourceTypes)
-----------------------------------------------------------------------------
(* Properties of PatternToRegex: pipes *)

\* PatternToRegex returned for a pattern that it translates as a plain
\* pattern, not as a regex literal
PlainTranslated ==
    /\ Returned("PatternToRegex")
    /\ arg \notin { <<>>, <<"*">> }
    /\ ~IsRegexLiteral(StripAnchors(arg).s)

\* the pattern ends in a | that a backslash escapes
EndsInEscapedPipe(p) == p # <<>> /\ p[Len(p)] = "|" /\ Escaped(p, Len(p))

\* the places of p that hold a |
Pipes(p) == { i \in 1..Len(p) : p[i] = "|" }

\* the | that are anchors of p: one or two at the start, and one at the end
\* that no backslash escapes
AnchorPipes(p) ==
    { i \in Pipes(p) : i = 1 \/ (i = 2 /\ p[1] = "|") \/ (i = Len(p) /\ ~Escaped(p, i)) }

\* C24: a backslash-escaped | of the pattern is no anchor: it gives a literal
\* \| in the regex and neither a ^ before nor a $ after it; and every | in the
\* interior of the pattern is emitted as \|.
C24_EscapedPipeIsLiteral ==
    PlainTranslated =>
        /\ EndsInEscapedPipe(arg) => HasSuffix(ret, <<"\\", "|">>)
        /\ HasPrefix(ret, <<"^">>) => HasPrefix(arg, <<"|">>)
        /\ \A i \in Pipes(ret) : i > 1 /\ ret[i - 1] = "\\"
        /\ Cardinality(Pipes(ret)) = Cardinality(Pipes(arg) \ AnchorPipes(arg))
-----------------------------------------------------------------------------
(* Properties of PatternToRegex: plain patterns *)

\* the first and the last place of s that hold no *, 1 and 0 when s has none
FirstNonStar(s) ==
    IF \A i \in 1..Len(s) : s[i] = "*" THEN 1
    ELSE CHOOSE i \in 1..Len(s) : s[i] # "*" /\ \A j \in 1..(i - 1) : s[j] = "*"

LastNonStar(s) ==
    IF \A i \in 1..Len(s) : s[i] = "*" THEN 0
    ELSE CHOOSE i \in 1..Len(s) : s[i] # "*" /\ \A j \in (i + 1)..Len(s) : s[j] = "*"

\* s without its leading and its trailing run of *
Core(s) == SubSeq(s, FirstNonStar(s), LastNonStar(s))

\* what the character i of the core c becomes
PlainImage(c, i) ==
    IF c[i] = "^" THEN restrSeparator
    ELSE IF c[i] = "*" THEN (IF c[i - 1] = "*" THEN <<>> ELSE <<".", "*">>)
    ELSE IF c[i] \in {".", "+", "?", "$", "{", "}", "(", ")", "|", "[", "]", "\\"}
    THEN <<"\\", c[i]>>
    ELSE <<c[i]>>

\* the translation of the plain text s
PlainExpected(s) == Join([i \in 1..Len(Core(s)) |-> PlainImage(Core(s), i)])

\* every * of r is the * of a `.*`
StarsInDotStar(r) ==
    \A i \in 1..Len(r) : r[i] = "*" => (i > 1 /\ r[i - 1] = "." /\ ~Escaped(r, i - 1))

\* r holds no `.*.*`
NoDoubleDotStar(r) == ~Contains(r, <<".", "*", ".", "*">>)

\* C25: for a plain pattern, the text left by the anchors is translated
\* character by character: ^ to the separator class, the leading and the
\* trailing run of * to nothing, every other maximal run of * to one `.*`,
\* every other metacharacter to itself after a backslash; the regex holds no *
\* outside a `.*` and no two `.*` in a row.
C25_PlainTranslation ==
    PlainTranslated =>
        /\ ret = ApplyAnchors(StripAnchors(arg), PlainExpected(StripAnchors(arg).s))
        /\ StarsInDotStar(ret)
        /\ NoDoubleDotStar(ret)

\* C25 case: a run of two * before a ^
C25_Witness ==
    /\ Returned("PatternToRegex")
    /\ arg = <<"a", "*", "*", "^">>
    /\ ret = <<"a", ".", "*">> \o restrSeparator
-----------------------------------------------------------------------------
(* Properties of expandCharacterClasses *)

ShorthandLetters == {"w", "W", "d", "D", "s", "S"}

\* the explicit class of a shorthand letter
ExplicitClass(c) ==
    CASE c = "w" -> Chars("[a-zA-Z0-9_]")
      [] c = "W" -> Chars("[^a-zA-Z0-9_]")
      [] c = "d" -> Chars("[0-9]")
      [] c = "D" -> Chars("[^0-9]")
      [] c = "s" -> <<"[", " ">> \o Chars("\\t\\n\\r\\f\\v]")
      [] c = "S" -> <<"[", "^", " ">> \o Chars("\\t\\n\\r\\f\\v]")

\* r holds a backslash with a shorthand letter behind it
HasShorthand(r) == \E i \in 1..(Len(r) - 1) : r[i] = "\\" /\ r[i + 1] \in ShorthandLetters

\* s read from the character i on, every shorthand replaced by its class
RECURSIVE ExpandedFrom(_, _)
ExpandedFrom(s, i) ==
    IF i > Len(s) THEN <<>>
    ELSE IF i < Len(s) /\ s[i] = "\\" /\ s[i + 1] \in ShorthandLetters
    THEN ExplicitClass(s[i + 1]) \o ExpandedFrom(s, i + 2)
    ELSE <<s[i]>> \o ExpandedFrom(s, i + 1)

\* C26: the output of expandCharacterClasses, and of PatternToRegex on a
\* regex literal, holds none of \w \W \d \D \s \S: every occurrence is
\* replaced by its explicit class, and no replacement brings a new one.
C26_NoShorthandLeft ==
    /\ Returned("expandCharacterClasses") =>
          /\ ~HasShorthand(ret)
          /\ ret = ReplaceOpenQuantifiers(ExpandedFrom(arg, 1))
    /\ (Returned("PatternToRegex") /\ IsRegexLiteral(StripAnchors(arg).s)) =>
          ~HasShorthand(ret)

\* C26 case: two shorthands in a row
C26_Witness ==
    /\ Returned("expandCharacterClasses")
    /\ arg = Chars("\\w\\S")
    /\ ret = Chars("[a-zA-Z0-9_][^ \\t\\n\\r\\f\\v]")
-----------------------------------------------------------------------------
(* Properties of Convert: normalized domains *)

\* the domain d as it is to be emitted
Normalized(d) ==
    LET t == ToLower(TrimSpace(d))
    IN IF t # <<>> /\ t[1] \in {"*", "."} THEN t ELSE <<"*">> \o t

NormalizedList(ds) == [k \in 1..Len(ds) |-> Normalized(ds[k])]

IsPlainToken(d) == d = <<>> \/ d[1] # "~"

IsNegatedToken(d) == d # <<>> /\ d[1] = "~"

\* the tokens of a cosmetic filter's domains that are negated, without the ~
NegatedSources(ds) ==
    [k \in 1..Len(SelectSeq(ds, IsNegatedToken)) |-> Tail(SelectSeq(ds, IsNegatedToken)[k])]

\* the source lists of the if-domain and the unless-domain of the rules of f
IncludeSource(f) ==
    IF f.Type \in CosmeticTypes THEN SelectSeq(f.Domains, IsPlainToken) ELSE f.Options.Domains

ExcludeSource(f) ==
    IF f.Type \in CosmeticTypes THEN NegatedSources(f.Domains) ELSE f.Options.ExcludeDomains

\* the list emitted is empty or the source list normalized, domain by domain
EmittedFrom(emitted, source) ==
    /\ emitted # <<>> => emitted = NormalizedList(source)
    /\ \A k \in 1..Len(emitted) : normalizeDomain(emitted[k]) = emitted[k]

\* C27: every if-domain and unless-domain list of an emitted rule is the
\* filter's source list normalized, domain by domain, in the same order and of
\* the same length: lower-cased, trimmed, with a * before it unless it starts
\* with * or a dot; and normalizing an emitted domain again changes nothing.
C27_DomainsNormalized ==
    [][AtFilter /\ idx' = idx + 1 =>
          \A k \in 1..Len(Emitted) :
              /\ EmittedFrom(Emitted[k].Trigger.IfDomain, IncludeSource(filters[idx]))
              /\ EmittedFrom(Emitted[k].Trigger.UnlessDomain, ExcludeSource(filters[idx]))]_vars

\* C27 case: Convert returned a rule for a network filter with a padded
\* upper-case domain and a dot-prefixed one
C27_Witness ==
    /\ pc = "done"
    /\ Len(filters) = 1
    /\ filters[1].Options.Domains = << <<" ", "A", ".", "b">>, <<".", "a">> >>
    /\ Len(rules) > 0
    /\ rules[1].Trigger.IfDomain = << Chars("*a.b"), Chars(".a") >>
-----------------------------------------------------------------------------
(* Properties of the combined output *)

\* Convert emits rules for f, and f has include and exclude domains
IsSplit(f) ==
    /\ ConvertOne(f).out.rules # <<>>
    /\ IncludeSource(f) # <<>>
    /\ ExcludeSource(f) # <<>>

\* C28: after Deduplicate, the combined output still holds, for every filter
\* with include and exclude domains, a rule with the filter's if-domain and a
\* rule with its unless-domain; a rule is missing from the output only when
\* an equal rule is in it.
C28_SplitSurvivesDeduplicate ==
    pc = "combined" =>
        /\ \A k \in 1..Len(filters) :
              IsSplit(filters[k]) =>
                  /\ \E i \in 1..Len(ret) :
                        ret[i].Trigger.IfDomain = NormalizedList(IncludeSource(filters[k]))
                  /\ \E i \in 1..Len(ret) :
                        ret[i].Trigger.UnlessDomain = NormalizedList(ExcludeSource(filters[k]))
        /\ \A j \in 1..Len(rules) : \E i \in 1..Len(ret) : ret[i] = rules[j]
-----------------------------------------------------------------------------
(* Properties of PatternToRegex: the empty regex *)

\* the pattern is a run of one * or more
IsWildcardRun(p) == p # <<>> /\ \A i \in 1..Len(p) : p[i] = "*"

\* C29: PatternToRegex never returns the empty string, and a pattern made of
\* wildcard characters only translates to `.*`.
C29_RegexNeverEmpty ==
    Returned("PatternToRegex") =>
        /\ ret # <<>>
        /\ IsWildcardRun(arg) => ret = <<".", "*">>
====
